---- MODULE Spec2Model ----
(***************************************************************************)
(* Verification model of the epics-analyzer repository.                    *)
(*                                                                         *)
(* Part 1: JiraTreeGenerator.build_issue_tree                              *)
(*         (src/src/utils/jira_tree_classes.py)                            *)
(***************************************************************************)
EXTENDS Integers, Sequences, FiniteSets, TLC

(***************************************************************************)
(* Bounds of the model.                                                    *)
(***************************************************************************)
\* total number of issue_links entries over all records of the store
MaxLinks == 3
\* cap on the depth of the _add_children recursion
MaxDepth == 6

(***************************************************************************)
(* The universe of issue keys, issue types, relation types, resolutions.   *)
(***************************************************************************)
Keys == {"K-1", "K-2", "K-3"}

IssueTypes == {"Business Epic", "Epic", "Story", ""}

RelationTypes == {"realized_by", "linked"}

Resolutions == {"Done", "Rejected", "Withdrawn"}

\* utils/config.py: JIRA_TREE_MANAGEMENT
JIRA_TREE_MANAGEMENT ==
    [t \in {"Business Initiative", "Business Epic", "Portfolio Epic",
            "Initiative", "Epic"} |->
        IF t = "Epic" THEN {"issue_in_epic", "realized_by", "linked"}
                      ELSE {"realized_by", "child"}]

\* utils/config.py: JIRA_TREE_MANAGEMENT_LIGHT
JIRA_TREE_MANAGEMENT_LIGHT ==
    [t \in {"Business Initiative", "Business Epic", "Portfolio Epic"} |->
        {"realized_by", "child"}]

\* build_issue_tree: resolutions_to_skip = ['Rejected', 'Withdrawn']
resolutions_to_skip == {"Rejected", "Withdrawn"}

(***************************************************************************)
(* The issue store (json_dir): one file per key.  A file is missing,       *)
(* holds invalid JSON ("corrupt"), or holds a record.                      *)
(***************************************************************************)
\* a record links to other issues, never to itself
LinksOf(k) == [relation_type : RelationTypes, key : Keys \ {k}]

RECURSIVE LinkSeqs(_, _)
LinkSeqs(k, n) ==
    IF n = 0 THEN {<<>>}
    ELSE {Append(s, l) : s \in LinkSeqs(k, n - 1), l \in LinksOf(k)}

NoRecord(f) ==
    [file |-> f, issue_type |-> "", resolution |-> "Done", issue_links |-> <<>>,
     issues_in_epic |-> <<>>]

\* the usual shape of a record: a Business Epic at the root, Epics below it
NominalType(k) == IF k = "K-1" THEN "Business Epic" ELSE "Epic"

\* type and resolution of a readable record that is not of the usual shape;
\* an Epic record can carry the separate list 'issues_in_epic'
OddShapes(k) ==
    {[issue_type |-> t, resolution |-> "Done", issues_in_epic |-> <<>>] :
        t \in IssueTypes \ {NominalType(k)}}
    \cup {[issue_type |-> NominalType(k), resolution |-> r, issues_in_epic |-> <<>>] :
             r \in resolutions_to_skip}
    \cup {[issue_type |-> "Epic", resolution |-> "Done", issues_in_epic |-> <<c>>] :
             c \in Keys \ {k}}

\* the files key k can have, with at most `links` links; of the usual shape
\* unless `odd`
FilesOf(k, links, odd) ==
    LET shapes == {[issue_type |-> NominalType(k), resolution |-> "Done",
                    issues_in_epic |-> <<>>]}
                  \cup (IF odd THEN OddShapes(k) ELSE {})
    IN  (IF odd THEN {NoRecord("missing"), NoRecord("corrupt")} ELSE {})
        \cup {[file |-> "ok", issue_type |-> sh.issue_type,
               resolution |-> sh.resolution, issue_links |-> ls,
               issues_in_epic |-> sh.issues_in_epic] :
                 sh \in shapes, ls \in UNION {LinkSeqs(k, n) : n \in 0..links}}

VARIABLES
    store,                    \* json_dir: key -> file
    root_key,                 \* argument of build_issue_tree
    include_rejected,         \* argument of build_issue_tree
    allowed_hierarchy_types,  \* self.allowed_hierarchy_types
    pc,                       \* "start" | "run" | "done"
    G_nodes,                  \* nodes of G
    G_edges,                  \* edges of G, <<parent, child>>
    visited,                  \* visited set of _add_children
    callStack,                \* frames of _add_children: [key, i]
    result,                   \* "pending" | "graph" | "None"
    issue_log,                \* ISSUE_LOG_FILE: sequence of logged keys
    expandCount,              \* key -> number of times its links were examined
    callCount,                \* key -> number of calls _add_children(key)
    earlier,                  \* the graph an earlier call of build_issue_tree returned
    persisted,                \* the record a scraper wrote for the root, field -> value
    \* ---- JiraScraper (utils/jira_scraper_api.py, utils/jira_scraper.py) ----
    variant,                  \* "api" | "selenium": which JiraScraper class runs
    scrape_mode,              \* self.scrape_mode
    check_days,               \* self.check_days
    jira,                     \* the tracker: key -> issue_links of the issue
    files,                    \* JIRA_ISSUES_DIR: key -> [file, status, age]
    processed_issues,         \* self.processed_issues
    issues_to_retry,          \* self.issues_to_retry, keys in insertion order
    retry_items,              \* run: the items of the retry pass not yet taken
    stack,                    \* process_related_issues: the work stack
    phase,                    \* position of run
    failures,                 \* number of failed fetches so far
    fetchCount,               \* key -> number of calls of the fetcher
    failedFirst,              \* keys whose fetch failed in the first pass
    failedRetry,              \* keys whose fetch failed in the retry pass
    obtained,                 \* keys whose record was fetched or read this run
    okCount,                  \* per key: the fetches that succeeded
    lastExtract,              \* the last call of extract_and_save_issue_data
    \* ---- ProjectDataProvider and the analyzers (utils/project_data_provider.py,
    \*      features/status_analyzer.py, features/time_creep_analyzer.py) ----
    apc,                      \* position of the analysis pipeline
    issue_tree,               \* self.issue_tree: the nodes, in the graph's order
    json_dir,                 \* self.json_dir: key -> [file, issue_type, activities]
    all_activities,           \* self.all_activities
    analysis,                 \* the dict StatusAnalyzer.analyze returns
    issue_edges,              \* self.issue_tree: the edges, <<parent, child>>
    creep,                    \* what TimeCreepAnalyzer.analyze returns and persists
    backlog,                  \* the dict BacklogAnalyzer.analyze returns
    \* ---- AnalysisRunner (features/analysis_runner.py) and main (main_scraper.py) ----
    runner,                   \* run_analyses: the classes, the position, all_results
    batch,                    \* main: the roots, the position of the loop, the outcomes
    \* ---- TimeCreepAnalyzer._parse_fix_version_to_date on the characters of a label ----
    resolver                  \* the label, and what the call returned or raised

treeVars == <<store, root_key, include_rejected, allowed_hierarchy_types, pc,
              G_nodes, G_edges, visited, callStack, result, expandCount,
              callCount, earlier, persisted>>

scraperVars == <<variant, scrape_mode, check_days, jira, files, processed_issues,
                 issues_to_retry, retry_items, stack, phase, failures, fetchCount,
                 failedFirst, failedRetry, obtained, okCount, lastExtract>>

pipelineVars == <<runner, batch, resolver>>

analyzerVars == <<apc, issue_tree, json_dir, all_activities, analysis, issue_edges,
                  creep, backlog, pipelineVars>>

vars == <<treeVars, issue_log, scraperVars, analyzerVars>>

(***************************************************************************)
(* Helpers of JiraTreeGenerator.                                           *)
(***************************************************************************)
\* the check of the root's type left out
RootTypeValid_any(issue_type) == TRUE

\* if root_issue_type not in self.allowed_hierarchy_types
RootTypeValid(issue_type) == issue_type \in DOMAIN allowed_hierarchy_types

\* find_json_for_key: a path, or None when no file holds the key
find_json_for_key(key) == store[key].file # "missing"

\* read_jira_issue: the parsed record, or None on invalid JSON
read_jira_issue(key) == store[key].file = "ok"

\* self.allowed_hierarchy_types.get(parent_issue_type, [])
allowed_relations(issue_type) ==
    IF issue_type \in DOMAIN allowed_hierarchy_types
    THEN allowed_hierarchy_types[issue_type]
    ELSE {}

\* every link followed, whatever its relation type
RelationAllowed_all(relation_type, parent_key) == TRUE

\* if relation_type in allowed_relations
RelationAllowed(relation_type, parent_key) ==
    relation_type \in allowed_relations(store[parent_key].issue_type)

\* only 'Rejected' excluded
ResolutionSkipped_rejectedOnly(key) ==
    ~include_rejected /\ store[key].resolution = "Rejected"

\* not include_rejected and resolution in resolutions_to_skip
ResolutionSkipped(key) ==
    ~include_rejected /\ store[key].resolution \in resolutions_to_skip

\* _log_missing_issue: append the key unless the file already lists it
_log_missing_issue(log, key) ==
    IF \E i \in 1..Len(log) : log[i] = key THEN log ELSE Append(log, key)

Top == callStack[Len(callStack)]

Pop == SubSeq(callStack, 1, Len(callStack) - 1)

Finish(frames) ==
    IF frames = <<>> THEN /\ pc' = "done"
                         /\ result' = "graph"
                    ELSE /\ UNCHANGED <<pc, result>>

(***************************************************************************)
(* build_issue_tree, lines 150-176: the checks on the root.                *)
(***************************************************************************)
ReturnNone ==
    /\ pc' = "done"
    /\ result' = "None"
    /\ UNCHANGED <<G_nodes, G_edges, visited, callStack, expandCount, callCount>>

BuildStart ==
    /\ pc = "start"
    /\ IF ~find_json_for_key(root_key)
       THEN /\ issue_log' = _log_missing_issue(issue_log, root_key)
            /\ ReturnNone
       ELSE /\ UNCHANGED issue_log
            /\ IF ~read_jira_issue(root_key)
               THEN ReturnNone
               ELSE IF ~RootTypeValid(store[root_key].issue_type)
               THEN ReturnNone
               ELSE IF ResolutionSkipped(root_key)
               THEN ReturnNone
               ELSE /\ G_nodes' = {root_key}
                    /\ callStack' = <<[key |-> root_key, i |-> 0]>>
                    /\ callCount' = [callCount EXCEPT ![root_key] = @ + 1]
                    /\ pc' = "run"
                    /\ UNCHANGED <<G_edges, visited, result, expandCount>>
    /\ UNCHANGED <<store, root_key, include_rejected, allowed_hierarchy_types, earlier,
                   persisted>>
    /\ UNCHANGED <<scraperVars, analyzerVars>>

(***************************************************************************)
(* _add_children, lines 181-191: the visited guard and the lookup of the   *)
(* allowed relations.                                                      *)
(***************************************************************************)
\* the guard forgotten: every call expands
AlreadyVisited_off(key) == FALSE

AlreadyVisited(key) == key \in visited

EnterAddChildren ==
    /\ pc = "run"
    /\ callStack # <<>>
    /\ Top.i = 0
    /\ IF AlreadyVisited(Top.key)
       THEN /\ callStack' = Pop
            /\ Finish(Pop)
            /\ UNCHANGED <<visited, expandCount>>
       ELSE /\ visited' = visited \cup {Top.key}
            /\ expandCount' = [expandCount EXCEPT ![Top.key] = @ + 1]
            /\ IF allowed_relations(store[Top.key].issue_type) = {}
               THEN /\ callStack' = Pop
                    /\ Finish(Pop)
               ELSE /\ callStack' = [callStack EXCEPT ![Len(callStack)].i = 1]
                    /\ UNCHANGED <<pc, result>>
    /\ UNCHANGED <<store, root_key, include_rejected, allowed_hierarchy_types, earlier, persisted,
                   G_nodes, G_edges, issue_log, callCount>>
    /\ UNCHANGED <<scraperVars, analyzerVars>>

(***************************************************************************)
(* _add_children, lines 193-220: one iteration of the loop over the        *)
(* parent's issue_links.                                                   *)
(***************************************************************************)
\* the edge kept only for a child that is new to the graph
EdgesAfter_newOnly(parent_key, child_key) ==
    IF child_key \in G_nodes THEN G_edges
    ELSE G_edges \cup {<<parent_key, child_key>>}

\* G.add_edge(parent_key, child_key)
EdgesAfter(parent_key, child_key) == G_edges \cup {<<parent_key, child_key>>}

\* what one iteration does with its link
LinkOutcome(parent_key, link) ==
    IF ~RelationAllowed(link.relation_type, parent_key) THEN "not_allowed"
    ELSE IF ~find_json_for_key(link.key) THEN "missing"
    ELSE IF ~read_jira_issue(link.key) THEN "unreadable"
    ELSE IF ResolutionSkipped(link.key) THEN "skipped"
    ELSE "added"

\* whether the iteration that could not find the child's file logs the key
LogsMissing(outcome) == outcome = "missing"

\* `break` in place of `continue` when the child cannot be loaded
LoopContinues_break(outcome) == outcome \notin {"missing", "unreadable"}

\* whether the loop goes on with the next link after this outcome: every
\* branch of the loop body ends in `continue` or falls through
LoopContinues(outcome) == TRUE

ProcessLink ==
    /\ pc = "run"
    /\ callStack # <<>>
    /\ Top.i >= 1
    /\ Top.i <= Len(store[Top.key].issue_links)
    /\ LET parent_key == Top.key
           link == store[parent_key].issue_links[Top.i]
           outcome == LinkOutcome(parent_key, link)
           next == IF LoopContinues(outcome)
                   THEN Top.i + 1
                   ELSE Len(store[parent_key].issue_links) + 1
           advanced == [callStack EXCEPT ![Len(callStack)].i = next]
       IN  /\ issue_log' = IF LogsMissing(outcome)
                           THEN _log_missing_issue(issue_log, link.key)
                           ELSE issue_log
           /\ IF outcome = "added"
              THEN /\ Len(callStack) < MaxDepth
                   /\ G_nodes' = G_nodes \cup {link.key}
                   /\ G_edges' = EdgesAfter(parent_key, link.key)
                   /\ callStack' = Append(advanced, [key |-> link.key, i |-> 0])
                   /\ callCount' = [callCount EXCEPT ![link.key] = @ + 1]
              ELSE /\ callStack' = advanced
                   /\ UNCHANGED <<G_nodes, G_edges, callCount>>
    /\ UNCHANGED <<store, root_key, include_rejected, allowed_hierarchy_types, earlier, persisted,
                   pc, visited, result, expandCount>>
    /\ UNCHANGED <<scraperVars, analyzerVars>>

(***************************************************************************)
(* _add_children: the loop is exhausted, the call returns.                 *)
(***************************************************************************)
ReturnAddChildren ==
    /\ pc = "run"
    /\ callStack # <<>>
    /\ Top.i > Len(store[Top.key].issue_links)
    /\ callStack' = Pop
    /\ Finish(Pop)
    /\ UNCHANGED <<store, root_key, include_rejected, allowed_hierarchy_types, earlier, persisted,
                   G_nodes, G_edges, visited, issue_log, expandCount, callCount>>
    /\ UNCHANGED <<scraperVars, analyzerVars>>

\* the scraper does not run
ScraperIdle ==
    /\ variant = "api"
    /\ scrape_mode = "true"
    /\ check_days = 0
    /\ jira = [k \in Keys |-> <<>>]
    /\ files = [k \in Keys |-> [file |-> "missing", status |-> "", age |-> 0]]
    /\ processed_issues = {}
    /\ issues_to_retry = <<>>
    /\ retry_items = <<>>
    /\ stack = <<>>
    /\ phase = "off"
    /\ failures = 0
    /\ fetchCount = [k \in Keys |-> 0]
    /\ failedFirst = {}
    /\ failedRetry = {}
    /\ obtained = {}
    /\ okCount = [k \in Keys |-> 0]
    /\ lastExtract = [decision |-> "none"]

\* neither run_analyses nor the loop of main is running, and the resolver of
\* labels is not called
PipelineIdle ==
    /\ runner = [pos |-> 0]
    /\ batch = [pos |-> 0]
    /\ resolver = [called |-> FALSE]

\* no ProjectDataProvider is constructed
AnalyzerIdle ==
    /\ apc = "off"
    /\ issue_tree = <<>>
    /\ json_dir = [k \in Keys |-> [file |-> "missing"]]
    /\ all_activities = <<>>
    /\ analysis = [returned |-> FALSE]
    /\ issue_edges = {}
    /\ creep = [returned |-> FALSE]
    /\ backlog = [returned |-> FALSE]
    /\ PipelineIdle

Init ==
    /\ ScraperIdle
    /\ AnalyzerIdle
    \* one file may be missing, corrupt or of unusual shape; MaxLinks links in all
    /\ \E oddKey \in Keys :
         \E r1 \in FilesOf("K-1", MaxLinks, oddKey = "K-1") :
           \E r2 \in FilesOf("K-2", MaxLinks - Len(r1.issue_links), oddKey = "K-2") :
             \E r3 \in FilesOf("K-3", MaxLinks - Len(r1.issue_links)
                                              - Len(r2.issue_links), oddKey = "K-3") :
               store = [k \in Keys |-> IF k = "K-1" THEN r1
                                       ELSE IF k = "K-2" THEN r2 ELSE r3]
    /\ root_key = "K-1"
    /\ include_rejected \in BOOLEAN
    /\ allowed_hierarchy_types \in {JIRA_TREE_MANAGEMENT, JIRA_TREE_MANAGEMENT_LIGHT}
    /\ pc = "start"
    /\ G_nodes = {}
    /\ G_edges = {}
    /\ visited = {}
    /\ callStack = <<>>
    /\ result = "pending"
    /\ issue_log = <<>>
    /\ expandCount = [k \in Keys |-> 0]
    /\ callCount = [k \in Keys |-> 0]
    /\ earlier = [built |-> FALSE]
    /\ persisted = [written |-> FALSE]

Next ==
    \/ BuildStart
    \/ EnterAddChildren
    \/ ProcessLink
    \/ ReturnAddChildren

Spec == Init /\ [][Next]_vars

\* build_issue_tree is one synchronous call: it keeps running until it returns
FairSpec == Spec /\ WF_vars(Next)

(***************************************************************************)
(* What the claims speak about, stated on the store without the builder.   *)
(***************************************************************************)
Done == pc = "done"

Built == pc = "done" /\ result = "graph"

Whitelist(issue_type) ==
    IF issue_type \in DOMAIN allowed_hierarchy_types
    THEN allowed_hierarchy_types[issue_type]
    ELSE {}

Readable(st, k) == st[k].file = "ok"

Excluded(st, k) ==
    ~include_rejected /\ st[k].resolution \in {"Rejected", "Withdrawn"}

\* link l of parent p is whitelisted for p's type
Whitelisted(st, p, l) == l.relation_type \in Whitelist(st[p].issue_type)

\* link l of parent p leads to a child the graph must hold
Followable(st, p, l) ==
    /\ Whitelisted(st, p, l)
    /\ Readable(st, l.key)
    /\ ~Excluded(st, l.key)

LinksAt(st, p) == {st[p].issue_links[i] : i \in 1..Len(st[p].issue_links)}

RootInvalid ==
    \/ ~Readable(store, root_key)
    \/ store[root_key].issue_type = ""
    \/ store[root_key].issue_type \notin DOMAIN allowed_hierarchy_types
    \/ Excluded(store, root_key)

\* the issues reachable from `set` along followable links
RECURSIVE ReachFrom(_)
ReachFrom(set) ==
    LET more == set \cup {l.key : l \in UNION {{m \in LinksAt(store, p) :
                                                   Followable(store, p, m)} : p \in set}}
    IN  IF more = set THEN set ELSE ReachFrom(more)

\* the traversal with a queue of pending nodes and a seen set: pop the
\* head, examine its links in order, append each unseen accepted child
RECURSIVE QueueWalk(_, _, _, _, _, _)
QueueWalk(st, queue, i, seen, nodes, edges) ==
    IF queue = <<>> THEN [nodes |-> nodes, edges |-> edges]
    ELSE LET p == Head(queue)
             links == st[p].issue_links
         IN  IF i > Len(links)
             THEN QueueWalk(st, Tail(queue), 1, seen, nodes, edges)
             ELSE IF Followable(st, p, links[i])
             THEN LET c == links[i].key
                  IN  QueueWalk(st, IF c \in seen THEN queue ELSE Append(queue, c),
                                i + 1, seen \cup {c}, nodes \cup {c},
                                edges \cup {<<p, c>>})
             ELSE QueueWalk(st, queue, i + 1, seen, nodes, edges)

QueueGraph(st) == QueueWalk(st, <<root_key>>, 1, {root_key}, {root_key}, {})

Reverse(seq) == [i \in 1..Len(seq) |-> seq[Len(seq) + 1 - i]]

\* the store with the links of every record in the opposite order
ReversedStore == [k \in Keys |-> [store[k] EXCEPT !.issue_links = Reverse(@)]]

(***************************************************************************)
(* C1-C8: the Tree Builder.                                                *)
(***************************************************************************)

\* C1: within one build_issue_tree call every issue key is expanded (passes
\* the visited guard and has its issue_links examined) at most once, however
\* many parents or cycles lead to it.
C1_ExpandedAtMostOnce == \A k \in Keys : expandCount[k] <= 1

\* a finished build in which _add_children was called twice for one key
C1_Witness ==
    Built /\ \E k \in Keys : callCount[k] >= 2 /\ expandCount[k] = 1

\* three Epics linked in a cycle by "linked" relations, which the whitelist
\* follows for Epics
ThreeCycle ==
    /\ allowed_hierarchy_types = JIRA_TREE_MANAGEMENT
    /\ \A k \in Keys : /\ store[k].file = "ok"
                        /\ store[k].issue_type = "Epic"
                        /\ Len(store[k].issue_links) = 1
                        /\ store[k].issue_links[1].relation_type = "linked"
    /\ {store[k].issue_links[1].key : k \in Keys} = Keys

\* C2: build_issue_tree terminates for every store, cyclic ones included,
\* and on the 3-cycle of "linked" relations it returns a graph of exactly
\* 3 nodes.
C2_Terminates ==
    /\ <>Done
    /\ [](Done /\ ThreeCycle /\ ~RootInvalid =>
             result = "graph" /\ Cardinality(G_nodes) = 3)

\* the build of the 3-cycle has returned
C2_Witness == Built /\ ThreeCycle /\ Cardinality(G_nodes) = 3

\* C3: every edge (p, c) of the graph comes from a link of p's record to c
\* whose relation_type is whitelisted for p's issue_type.
C3_WhitelistEnforced ==
    \A e \in G_edges :
        \E l \in LinksAt(store, e[1]) : l.key = e[2] /\ Whitelisted(store, e[1], l)

\* a finished build with a node whose link of a relation type that is not
\* whitelisted leads to a valid record, and no edge for it
C3_Witness ==
    /\ Built
    /\ \E p \in G_nodes : \E l \in LinksAt(store, p) :
          /\ ~Whitelisted(store, p, l)
          /\ Readable(store, l.key)
          /\ ~Excluded(store, l.key)
          /\ <<p, l.key>> \notin G_edges

\* C4: with include_rejected false no node of the returned graph has
\* resolution Rejected or Withdrawn, and the nodes are exactly the issues
\* reachable from the root along followed links through non-excluded issues.
C4_ResolutionExclusion ==
    Built /\ ~include_rejected =>
        /\ \A n \in G_nodes : store[n].resolution \notin {"Rejected", "Withdrawn"}
        /\ G_nodes = ReachFrom({root_key})

\* a finished build: an excluded child of the root links to a third issue,
\* which is in the graph exactly when the root links to it as well
C4_Witness ==
    /\ Built
    /\ ~include_rejected
    /\ \E c \in Keys, d \in Keys \ {root_key} :
          /\ store[c].file = "ok"
          /\ store[c].resolution \in {"Rejected", "Withdrawn"}
          /\ \E l \in LinksAt(store, root_key) :
                l.key = c /\ Whitelisted(store, root_key, l)
          /\ \E l \in LinksAt(store, c) : l.key = d /\ Whitelisted(store, c, l)
          /\ Readable(store, d)
          /\ c \notin G_nodes
          /\ d \notin G_nodes

\* the other half of the case: the third issue has a second, non-excluded path
C4_WitnessOtherPath ==
    /\ Built
    /\ ~include_rejected
    /\ \E c \in Keys, d \in Keys \ {root_key} :
          /\ store[c].file = "ok"
          /\ store[c].resolution \in {"Rejected", "Withdrawn"}
          /\ \E l \in LinksAt(store, root_key) :
                l.key = c /\ Whitelisted(store, root_key, l)
          /\ \E l \in LinksAt(store, c) : l.key = d /\ Whitelisted(store, c, l)
          /\ c \notin G_nodes
          /\ d \in G_nodes

\* C5: the node set and the edge set of the returned graph are those of the
\* traversal with a queue, on the store as it is and on the store with the
\* links of every record in the opposite order.
C5_OrderIndependent ==
    Built =>
        /\ G_nodes = QueueGraph(store).nodes
        /\ G_edges = QueueGraph(store).edges
        /\ G_nodes = QueueGraph(ReversedStore).nodes
        /\ G_edges = QueueGraph(ReversedStore).edges

\* a finished build of a graph of three nodes where one record has two
\* followed links, so that stack and queue visit in different orders
C5_Witness ==
    /\ Built
    /\ Cardinality(G_nodes) = 3
    /\ \E p \in G_nodes : Len(store[p].issue_links) >= 2
                            /\ Cardinality({e \in G_edges : e[1] = p}) = 2
    /\ Cardinality(G_edges) = 3

\* C6: build_issue_tree returns None exactly when the root's file is missing
\* or unreadable, its issue_type is empty or no key of the whitelist, or its
\* resolution is excluded; otherwise it returns a graph holding the root.
C6_RootErrors ==
    Done =>
        /\ result = "None" <=> RootInvalid
        /\ result = "graph" <=> ~RootInvalid
        /\ result = "graph" => root_key \in G_nodes

\* a build that returned None for a readable root of a type that is no key
\* of the whitelist
C6_Witness ==
    /\ Done
    /\ result = "None"
    /\ Readable(store, root_key)
    /\ store[root_key].issue_type \notin DOMAIN allowed_hierarchy_types
    /\ store[root_key].issue_type # ""

\* C7: a whitelisted link to a missing or unreadable record adds neither
\* node nor edge and does not abort the build: every followable link of
\* every node of the graph has its edge and its node.
C7_MissingChildTolerated ==
    (Done /\ ~RootInvalid) =>
        /\ result = "graph"
        /\ \A p \in G_nodes : \A l \in LinksAt(store, p) :
              /\ (Whitelisted(store, p, l) /\ ~Readable(store, l.key)) =>
                     (l.key \notin G_nodes /\ <<p, l.key>> \notin G_edges)
              /\ Followable(store, p, l) =>
                     (l.key \in G_nodes /\ <<p, l.key>> \in G_edges)

\* a finished build: a record's whitelisted link to a missing or corrupt file
\* is followed, in the same record, by a link that became an edge
C7_Witness ==
    /\ Built
    /\ \E p \in G_nodes : \E i, j \in 1..Len(store[p].issue_links) :
          /\ i < j
          /\ Whitelisted(store, p, store[p].issue_links[i])
          /\ ~Readable(store, store[p].issue_links[i].key)
          /\ <<p, store[p].issue_links[j].key>> \in G_edges

\* C8: every child key that could not be loaded during the build, its file
\* missing or corrupt, is in the failed-issues log when the build returns.
C8_FailedChildrenLogged ==
    Built =>
        \A p \in G_nodes : \A l \in LinksAt(store, p) :
            (Whitelisted(store, p, l) /\ ~Readable(store, l.key)) =>
                \E i \in 1..Len(issue_log) : issue_log[i] = l.key

\* what the code does: the children whose file is missing are logged
C8_MissingChildrenLogged ==
    Built =>
        \A p \in G_nodes : \A l \in LinksAt(store, p) :
            (Whitelisted(store, p, l) /\ store[l.key].file = "missing") =>
                \E i \in 1..Len(issue_log) : issue_log[i] = l.key

(***************************************************************************)
(* Part 2: JiraScraper.run with its two passes                             *)
(*         (src/src/utils/jira_scraper_api.py, the scraper main_scraper    *)
(*          uses, and src/src/utils/jira_scraper.py, the Selenium one)     *)
(***************************************************************************)
\* number of links of the tracker's issues, over all issues
MaxJiraLinks == 2
\* number of issues that have a file in JIRA_ISSUES_DIR before the run
MaxCached == 1
\* number of fetches that fail in one run
MaxFailures == 2

\* utils/config.py: SCRAPER_CHECK_DAYS
SCRAPER_CHECK_DAYS == 14

\* utils/config.py: JIRA_LINK_TYPES_TO_FOLLOW
JIRA_LINK_TYPES_TO_FOLLOW == {"child", "realized_by", "issue_in_epic", "linked"}

\* relation types of the tracker's links: one the scraper follows, one not
ScraperRelations == {"realized_by", "relates"}

Statuses == {"Closed", "closed", "In Progress"}

\* age of a file in days: younger than, exactly, older than the threshold
Ages == {SCRAPER_CHECK_DAYS - 1, SCRAPER_CHECK_DAYS, SCRAPER_CHECK_DAYS + 1}

\* str.lower() on the statuses above
Lower(str) ==
    IF str = "Closed" THEN "closed"
    ELSE IF str = "In Progress" THEN "in progress"
    ELSE str

NoFile == [file |-> "missing", status |-> "", age |-> 0]

CachedFiles ==
    {[file |-> "corrupt", status |-> "", age |-> 0]}
    \cup [file : {"ok"}, status : Statuses, age : Ages]

RECURSIVE JiraLinkSeqs(_, _)
JiraLinkSeqs(k, n) ==
    IF n = 0 THEN {<<>>}
    ELSE {Append(ls, l) : ls \in JiraLinkSeqs(k, n - 1),
                          l \in [relation_type : ScraperRelations, key : Keys \ {k}]}

\* the link lists an issue of the tracker can have, with at most n links
JiraLinksOf(k, n) == UNION {JiraLinkSeqs(k, m) : m \in 0..n}

\* the files an issue can have before the run
FilesBefore(cached) == {NoFile} \cup (IF cached > 0 THEN CachedFiles ELSE {})

Cost(f) == IF f = NoFile THEN 0 ELSE 1

\* self.url.split('/browse/')[1]
start_key == "K-1"

(***************************************************************************)
(* _should_skip_issue                                                      *)
(***************************************************************************)
\* the comparison without lower(): only the exact string 'closed' counts
StatusIsClosed_exact(status) == status = "closed"

\* data.get("status", "").lower() == "closed"
StatusIsClosed(status) == Lower(status) = "closed"

\* `<=` in place of `<`
YoungerThan_orEqual(age, days) == age <= days

\* datetime.now() - mtime < timedelta(days=self.check_days)
YoungerThan(age, days) == age < days

\* if self.scrape_mode != 'check': return False
ModeChecksCache(mode) == mode = "check"

_should_skip_issue(key) ==
    IF ~ModeChecksCache(scrape_mode) THEN FALSE
    ELSE IF files[key].file = "missing" THEN FALSE
    ELSE IF files[key].file = "corrupt" THEN FALSE
    ELSE IF StatusIsClosed(files[key].status) THEN TRUE
    ELSE IF YoungerThan(files[key].age, check_days) THEN TRUE
    ELSE FALSE

(***************************************************************************)
(* extract_and_save_issue_data(issue_url, issue_key, is_retry)             *)
(* `outcome` is what the fetcher does when it is called: "ok", "error"     *)
(* (an exception), or, for the Selenium scraper, "gone" (an exception on a *)
(* page that says the issue cannot be viewed).                             *)
(***************************************************************************)
Outcomes == IF variant = "api" THEN {"ok", "error"} ELSE {"ok", "error", "gone"}

\* self.issues_to_retry[issue_key] = issue_url
RetryPut(retry, key) ==
    IF \E i \in 1..Len(retry) : retry[i] = key THEN retry ELSE Append(retry, key)

\* whether the call reaches the fetcher
CallsFetcher(key) == key \notin processed_issues /\ ~_should_skip_issue(key)

\* the except branch with is_retry set: the issue is marked processed and
\* given up, without an entry in issues_to_retry
\*   api:      every exception                       (lines 212-215)
\*   selenium: only the "can't view this issue" page (lines 223-228)
GivenUpOnRetry(outcome) ==
    IF variant = "api" THEN outcome # "ok" ELSE outcome = "gone"

\* the call returns None where the stored record was to be returned
SkipReturns_none(cached) == FALSE

\* lines 190-194: `return cached`, the stored record (data is returned)
SkipReturns(cached) == cached

\* the fetched issue is not added to processed_issues
AfterFetch_unmarked(processed, key) == processed

\* line 209: self.processed_issues.add(issue_key) after the record is written
AfterFetch(processed, key) == processed \cup {key}

\* the result of the call: the new processed_issues, issues_to_retry and
\* files, and whether data was returned
Extract(key, is_retry, outcome) ==
    IF key \in processed_issues
    THEN [processed |-> processed_issues, retry |-> issues_to_retry,
          files |-> files, data |-> FALSE, decision |-> "already"]
    ELSE IF _should_skip_issue(key)
    THEN [processed |-> processed_issues \cup {key}, retry |-> issues_to_retry,
          files |-> files, data |-> SkipReturns(TRUE), decision |-> "served"]
    ELSE IF outcome = "ok"
    THEN [processed |-> AfterFetch(processed_issues, key), retry |-> issues_to_retry,
          files |-> [files EXCEPT ![key] =
                        [file |-> "ok", status |-> "In Progress", age |-> 0]],
          data |-> TRUE, decision |-> "fetched"]
    ELSE IF is_retry /\ GivenUpOnRetry(outcome)
    THEN [processed |-> processed_issues \cup {key}, retry |-> issues_to_retry,
          files |-> files, data |-> FALSE, decision |-> "failed"]
    ELSE [processed |-> processed_issues, retry |-> RetryPut(issues_to_retry, key),
          files |-> files, data |-> FALSE, decision |-> "failed"]

\* the bookkeeping of one call: the state of the scraper after it, and what
\* the call saw and did
ApplyExtract(key, is_retry, outcome, r) ==
    /\ issues_to_retry' = r.retry
    /\ files' = r.files
    /\ failures' = IF r.decision = "failed" THEN failures + 1 ELSE failures
    /\ fetchCount' = IF r.decision \in {"fetched", "failed"}
                     THEN [fetchCount EXCEPT ![key] = @ + 1]
                     ELSE fetchCount
    /\ failedFirst' = IF r.decision = "failed" /\ ~is_retry
                      THEN failedFirst \cup {key} ELSE failedFirst
    /\ failedRetry' = IF r.decision = "failed" /\ is_retry
                      THEN failedRetry \cup {key} ELSE failedRetry
    /\ obtained' = IF r.data THEN obtained \cup {key} ELSE obtained
    /\ okCount' = IF r.decision = "fetched"
                  THEN [okCount EXCEPT ![key] = @ + 1] ELSE okCount
    /\ lastExtract' = [decision |-> r.decision, key |-> key, is_retry |-> is_retry,
                       file |-> files[key], mode |-> scrape_mode]

\* the outcomes the fetcher may have in this call
OutcomesFor(key) ==
    IF ~CallsFetcher(key) THEN {"ok"}
    ELSE {o \in Outcomes : o = "ok" \/ failures < MaxFailures}

(***************************************************************************)
(* process_related_issues                                                  *)
(***************************************************************************)
\* api: if rel.get("relation_type") not in JIRA_LINK_TYPES_TO_FOLLOW: continue
\* selenium: every link is followed
LinkFollowed(link) ==
    variant = "selenium" \/ link.relation_type \in JIRA_LINK_TYPES_TO_FOLLOW

\* the keys pushed for the links of a record, in the order of the links
RECURSIVE Pushed(_, _)
Pushed(links, processed) ==
    IF links = <<>> THEN <<>>
    ELSE IF LinkFollowed(Head(links)) /\ Head(links).key \notin processed
    THEN <<Head(links).key>> \o Pushed(Tail(links), processed)
    ELSE Pushed(Tail(links), processed)

(***************************************************************************)
(* run                                                                     *)
(***************************************************************************)
\* run, lines 329-331: clear issues_to_retry, log in
RunStart ==
    /\ phase = "idle"
    /\ issues_to_retry' = <<>>
    /\ \E login_ok \in BOOLEAN : phase' = IF login_ok THEN "pass1" ELSE "done"
    /\ UNCHANGED <<variant, scrape_mode, check_days, jira, files, processed_issues,
                   retry_items, stack, failures, fetchCount, failedFirst,
                   failedRetry, obtained, okCount, lastExtract>>
    /\ UNCHANGED <<treeVars, issue_log, analyzerVars>>

\* run, lines 337-339: the start issue, and the first layer of its links
ExtractRoot ==
    /\ phase = "pass1"
    /\ \E outcome \in OutcomesFor(start_key) :
         LET r == Extract(start_key, FALSE, outcome)
         IN  /\ ApplyExtract(start_key, FALSE, outcome, r)
             /\ processed_issues' = r.processed
             /\ stack' = IF r.data THEN Pushed(jira[start_key], r.processed)
                                   ELSE <<>>
    /\ phase' = "walk1"
    /\ UNCHANGED <<variant, scrape_mode, check_days, jira, retry_items>>
    /\ UNCHANGED <<treeVars, issue_log, analyzerVars>>

\* process_related_issues, lines 242-265: one iteration of `while stack`
WalkStep ==
    /\ phase \in {"walk1", "walk2"}
    /\ stack # <<>>
    /\ LET k == stack[Len(stack)]
           rest == SubSeq(stack, 1, Len(stack) - 1)
           is_retry == phase = "walk2"
       IN  IF k \in processed_issues
           THEN /\ stack' = rest
                /\ UNCHANGED <<processed_issues, issues_to_retry, files, failures,
                               fetchCount, failedFirst, failedRetry, obtained,
                               okCount, lastExtract>>
           ELSE \E outcome \in OutcomesFor(k) :
                  LET r == Extract(k, is_retry, outcome)
                  IN  /\ ApplyExtract(k, is_retry, outcome, r)
                      /\ IF r.data
                         THEN /\ processed_issues' = r.processed \cup {k}
                              /\ stack' = rest \o Pushed(jira[k], r.processed \cup {k})
                         ELSE /\ processed_issues' = r.processed
                              /\ stack' = rest
    /\ UNCHANGED <<variant, scrape_mode, check_days, jira, retry_items, phase>>
    /\ UNCHANGED <<treeVars, issue_log, analyzerVars>>

\* run, lines 342-345: the first pass is over
StartRetryPass ==
    /\ phase = "walk1"
    /\ stack = <<>>
    /\ IF issues_to_retry # <<>>
       THEN /\ retry_items' = issues_to_retry
            /\ issues_to_retry' = <<>>
            /\ phase' = "walk2"
       ELSE /\ phase' = "finish"
            /\ UNCHANGED <<retry_items, issues_to_retry>>
    /\ UNCHANGED <<variant, scrape_mode, check_days, jira, files, processed_issues,
                   stack, failures, fetchCount, failedFirst, failedRetry, obtained,
                   okCount, lastExtract>>
    /\ UNCHANGED <<treeVars, issue_log, analyzerVars>>

\* run, lines 346-349: the next item of the retry pass
RetryNext ==
    /\ phase = "walk2"
    /\ stack = <<>>
    /\ retry_items # <<>>
    /\ LET k == Head(retry_items)
       IN  \E outcome \in OutcomesFor(k) :
             LET r == Extract(k, TRUE, outcome)
             IN  /\ ApplyExtract(k, TRUE, outcome, r)
                 /\ processed_issues' = r.processed
                 /\ stack' = IF r.data THEN Pushed(jira[k], r.processed) ELSE <<>>
    /\ retry_items' = Tail(retry_items)
    /\ UNCHANGED <<variant, scrape_mode, check_days, jira, phase>>
    /\ UNCHANGED <<treeVars, issue_log, analyzerVars>>

\* run: the retry pass is over
EndRetryPass ==
    /\ phase = "walk2"
    /\ stack = <<>>
    /\ retry_items = <<>>
    /\ phase' = "finish"
    /\ UNCHANGED <<variant, scrape_mode, check_days, jira, files, processed_issues,
                   issues_to_retry, retry_items, stack, failures, fetchCount,
                   failedFirst, failedRetry, obtained, okCount, lastExtract>>
    /\ UNCHANGED <<treeVars, issue_log, analyzerVars>>

\* _log_final_failures: the keys of issues_to_retry that the log does not hold
RECURSIVE LogFinalFailures(_, _)
LogFinalFailures(log, retry) ==
    IF retry = <<>> THEN <<>>
    ELSE (IF \E i \in 1..Len(log) : log[i] = Head(retry)
          THEN <<>> ELSE <<Head(retry)>>)
         \o LogFinalFailures(log, Tail(retry))

\* _enrich_issues_with_parent_links: the files that get a parent_link and
\* are written again
Enriched ==
    {c \in Keys : /\ files[c].file = "ok"
                  /\ \E p \in processed_issues :
                        /\ files[p].file = "ok"
                        /\ \E i \in 1..Len(jira[p]) : jira[p][i].key = c}

\* run, lines 351-353
FinishRun ==
    /\ phase = "finish"
    /\ issue_log' = issue_log \o LogFinalFailures(issue_log, issues_to_retry)
    /\ files' = [k \in Keys |-> IF k \in Enriched THEN [files[k] EXCEPT !.age = 0]
                                                  ELSE files[k]]
    /\ phase' = "done"
    /\ UNCHANGED <<variant, scrape_mode, check_days, jira, processed_issues,
                   issues_to_retry, retry_items, stack, failures, fetchCount,
                   failedFirst, failedRetry, obtained, okCount, lastExtract>>
    /\ UNCHANGED <<treeVars, analyzerVars>>

\* build_issue_tree is not running
TreeIdle ==
    /\ store = [k \in Keys |-> NoRecord("missing")]
    /\ root_key = "K-1"
    /\ include_rejected = FALSE
    /\ allowed_hierarchy_types = JIRA_TREE_MANAGEMENT
    /\ pc = "off"
    /\ G_nodes = {}
    /\ G_edges = {}
    /\ visited = {}
    /\ callStack = <<>>
    /\ result = "pending"
    /\ expandCount = [k \in Keys |-> 0]
    /\ callCount = [k \in Keys |-> 0]
    /\ earlier = [built |-> FALSE]
    /\ persisted = [written |-> FALSE]

ScraperInit ==
    /\ TreeIdle
    /\ AnalyzerIdle
    /\ issue_log = <<>>
    /\ variant \in {"api", "selenium"}
    /\ scrape_mode \in {"true", "check"}
    /\ check_days = SCRAPER_CHECK_DAYS
    \* MaxJiraLinks links in all
    /\ \E l1 \in JiraLinksOf("K-1", MaxJiraLinks) :
         \E l2 \in JiraLinksOf("K-2", MaxJiraLinks - Len(l1)) :
           \E l3 \in JiraLinksOf("K-3", MaxJiraLinks - Len(l1) - Len(l2)) :
             jira = [k \in Keys |-> IF k = "K-1" THEN l1
                                    ELSE IF k = "K-2" THEN l2 ELSE l3]
    \* MaxCached files in all
    /\ \E f1 \in FilesBefore(MaxCached) :
         \E f2 \in FilesBefore(MaxCached - Cost(f1)) :
           \E f3 \in FilesBefore(MaxCached - Cost(f1) - Cost(f2)) :
             files = [k \in Keys |-> IF k = "K-1" THEN f1
                                     ELSE IF k = "K-2" THEN f2 ELSE f3]
    /\ processed_issues = {}
    /\ issues_to_retry = <<>>
    /\ retry_items = <<>>
    /\ stack = <<>>
    /\ phase = "idle"
    /\ failures = 0
    /\ fetchCount = [k \in Keys |-> 0]
    /\ failedFirst = {}
    /\ failedRetry = {}
    /\ obtained = {}
    /\ okCount = [k \in Keys |-> 0]
    /\ lastExtract = [decision |-> "none"]

ScraperNext ==
    \/ RunStart
    \/ ExtractRoot
    \/ WalkStep
    \/ StartRetryPass
    \/ RetryNext
    \/ EndRetryPass
    \/ FinishRun

ScraperSpec == ScraperInit /\ [][ScraperNext]_vars

\* the runs the termination is followed on: at most one issue has a file
\* before the run, which is corrupt, a closed issue's young file, or an open
\* issue's old file
ScraperFairInit ==
    /\ ScraperInit
    /\ \A j, k \in Keys : (files[j] # NoFile /\ files[k] # NoFile) => j = k
    /\ \A k \in Keys :
          files[k] \in {NoFile,
                        [file |-> "corrupt", status |-> "", age |-> 0],
                        [file |-> "ok", status |-> "closed", age |-> SCRAPER_CHECK_DAYS - 1],
                        [file |-> "ok", status |-> "In Progress", age |-> SCRAPER_CHECK_DAYS + 1]}

\* run is one synchronous call: it goes on until it returns
ScraperFairSpec == ScraperFairInit /\ [][ScraperNext]_vars /\ WF_vars(ScraperNext)

(***************************************************************************)
(* C9-C10: the scraper's retry pass and its cache policy.                  *)
(***************************************************************************)
RunDone == phase = "done"

InLog(key) == \E i \in 1..Len(issue_log) : issue_log[i] = key

\* C9: at the end of a run every issue whose fetch failed in the first pass
\* and failed again in the retry pass is in the failed-issues log.
C9_FinalFailuresLogged ==
    RunDone => \A k \in failedFirst \cap failedRetry : InLog(k)

\* what the code does: the log holds exactly the keys left in
\* issues_to_retry, none of which was given up by the retry branch
C9_LogIsRetryList ==
    RunDone =>
        /\ \A k \in Keys : InLog(k) <=>
                              \E i \in 1..Len(issues_to_retry) : issues_to_retry[i] = k
        /\ variant = "api" => issue_log = <<>>

\* a stored record that can be read and is closed in any spelling, or
\* younger than check_days
CacheUsable(file) ==
    /\ file.file = "ok"
    /\ \/ file.status \in {"closed", "Closed"}
       \/ file.age < check_days

\* C10: a call of extract_and_save_issue_data for an issue not yet processed
\* serves the issue from its stored record, without calling the fetcher,
\* exactly when the mode is 'check' and the record is readable and closed or
\* younger than check_days; in every other case it calls the fetcher.
C10_CachePolicy ==
    lastExtract.decision \in {"served", "fetched", "failed"} =>
        /\ lastExtract.decision = "served" <=>
              (lastExtract.mode = "check" /\ CacheUsable(lastExtract.file))
        /\ lastExtract.decision = "served" => fetchCount[lastExtract.key] = 0

\* a call in mode 'check' that served a closed record older than check_days
C10_Witness ==
    /\ lastExtract.decision = "served"
    /\ lastExtract.mode = "check"
    /\ lastExtract.file.status = "Closed"
    /\ lastExtract.file.age > check_days
    /\ fetchCount[lastExtract.key] = 0

\* a call in mode 'check' that fetched because the record is exactly
\* check_days old and not closed
C10_WitnessStale ==
    /\ lastExtract.decision = "fetched"
    /\ lastExtract.mode = "check"
    /\ lastExtract.file.file = "ok"
    /\ lastExtract.file.age = check_days

(***************************************************************************)
(* C11-C12: traversal below a record served from the store; termination.   *)
(***************************************************************************)
\* the keys whose stored record was returned in place of a fetch
Served == {k \in obtained : fetchCount[k] = 0}

\* the keys the followed links of the record of p lead to
FollowedChildren(p) ==
    {jira[p][i].key : i \in {j \in 1..Len(jira[p]) : LinkFollowed(jira[p][j])}}

\* C11: when the fetch of an issue is skipped because its stored record is
\* closed or fresh, the stored record is returned and its links are traversed
\* as for a fetched issue: at the end of the run every issue a followed link
\* of a returned record leads to was itself served from its stored record,
\* or fetched, or its fetch was tried and failed.
C11_ServedRecordTraversed ==
    RunDone =>
        \A p \in obtained :
            /\ files[p].file = "ok"
            /\ \A c \in FollowedChildren(p) :
                   \/ c \in Served
                   \/ okCount[c] = 1
                   \/ c \in failedFirst \cup failedRetry

\* a run in which a record was served from the store and an issue below it,
\* which had no usable stored record, was fetched
C11_Witness ==
    /\ RunDone
    /\ \E p \in Served : \E c \in FollowedChildren(p) :
           c \notin Served /\ okCount[c] = 1

\* C12: run terminates for every link graph and every pattern of fetch
\* failures, no key is fetched successfully more than once in a run, and the
\* work stack and the retry list are empty when the passes are over.
C12_RunTerminates ==
    /\ <>RunDone
    /\ [](\A k \in Keys : okCount[k] <= 1)
    /\ [](phase \in {"finish", "done"} => stack = <<>> /\ retry_items = <<>>)

\* a finished run over cyclic links in which a fetch failed in the first pass
\* and succeeded in the retry pass
C12_Witness ==
    /\ RunDone
    /\ \E a \in obtained : \E b \in FollowedChildren(a) \cap obtained :
           a \in FollowedChildren(b)
    /\ \E k \in failedFirst : okCount[k] = 1

(***************************************************************************)
(* Part 3: ProjectDataProvider (src/src/utils/project_data_provider.py)    *)
(*         and StatusAnalyzer (src/src/features/status_analyzer.py)        *)
(***************************************************************************)
\* number of activities stored in json_dir, over all issues
MaxEvents == 3

\* the timestamps of the stored activities, in days; zeitstempel_iso strings
\* of one format and offset are ordered as these
Times == {1, 2, 3}

\* days from the latest timestamp to the time of the analysis
NowOffset == 5

\* datetime.now().astimezone()
now == 3 + NowOffset

\* data_provider.epic_id
epic_id == "K-1"

\* new values of Status activities, as stored
StatusValues == {"ANALYSIS", "IN PROGRESS", "RESOLVED", "Jira: Closed [6]"}

\* the activities a file can hold: changes of Status, and of another field
StoredActivities ==
    [feld_name : {"Status"}, neuer_wert : StatusValues, zeitstempel_iso : Times]
    \cup [feld_name : {"Description"}, neuer_wert : {"[...]"}, zeitstempel_iso : Times]

\* whether activity e can follow the list s in a file: files hold the
\* activities of an issue in chronological order
Follows(s, e) == s = <<>> \/ s[Len(s)].zeitstempel_iso <= e.zeitstempel_iso

\* the activity lists of at most n activities
RECURSIVE ActivityLists(_)
ActivityLists(n) ==
    IF n = 0 THEN {<<>>}
    ELSE LET shorter == ActivityLists(n - 1)
         IN  shorter \cup
             {Append(p[1], p[2]) :
                p \in {q \in shorter \X StoredActivities :
                          Len(q[1]) = n - 1 /\ Follows(q[1], q[2])}}

IssueFile(type, acts) == [file |-> "ok", issue_type |-> type, activities |-> acts]

\* the nodes of the issue tree, in the order of the graph
TreeOrders == {<<>>, <<"K-1", "K-2">>, <<"K-1", "K-2", "K-3">>, <<"K-1", "K-3", "K-2">>}

(***************************************************************************)
(* ProjectDataProvider                                                     *)
(***************************************************************************)
\* activity['issue_key'] = issue_key, for the activities of one file
Tagged(acts, issue_key) ==
    [i \in 1..Len(acts) |->
        [feld_name |-> acts[i].feld_name, neuer_wert |-> acts[i].neuer_wert,
         zeitstempel_iso |-> acts[i].zeitstempel_iso, issue_key |-> issue_key]]

\* _gather_all_activities: the loop over self.issue_tree.nodes()
RECURSIVE _gather_all_activities(_)
_gather_all_activities(nodes) ==
    IF nodes = <<>> THEN <<>>
    ELSE LET issue_key == Head(nodes)
             f == json_dir[issue_key]
         IN  (IF f.file = "ok" THEN Tagged(f.activities, issue_key) ELSE <<>>)
             \o _gather_all_activities(Tail(nodes))

\* key=lambda x: x.get('zeitstempel_iso', '')
SortKey(x) == x.zeitstempel_iso

\* a sort that puts an element before the elements of equal key
InsertPosition_beforeEqual(x, sorted) ==
    Cardinality({i \in 1..Len(sorted) : SortKey(sorted[i]) < SortKey(x)})

\* list.sort is stable: an element goes behind the elements of equal key
\* that precede it in the list
InsertPosition(x, sorted) ==
    Cardinality({i \in 1..Len(sorted) : SortKey(sorted[i]) <= SortKey(x)})

\* self.all_activities.sort(key=...)
RECURSIVE StableSort(_)
StableSort(list) ==
    IF list = <<>> THEN <<>>
    ELSE LET x == list[Len(list)]
             sorted == StableSort(SubSeq(list, 1, Len(list) - 1))
             n == InsertPosition(x, sorted)
         IN  SubSeq(sorted, 1, n) \o <<x>> \o SubSeq(sorted, n + 1, Len(sorted))

\* __init__, lines 30-33
GatherAllActivities ==
    /\ apc = "new"
    /\ all_activities' = StableSort(_gather_all_activities(issue_tree))
    /\ apc' = "provided"
    /\ UNCHANGED <<issue_tree, json_dir, analysis, issue_edges, creep, backlog,
                   pipelineVars>>
    /\ UNCHANGED <<treeVars, issue_log, scraperVars>>

\* _build_issue_details_cache: cache[issue_key]['type'], over every file of
\* json_dir that can be read
IssueDetailsType(k) == IF json_dir[k].file = "ok" THEN json_dir[k].issue_type ELSE ""

(***************************************************************************)
(* StatusAnalyzer                                                          *)
(***************************************************************************)
\* _clean_status_name, on the status strings of the model
_clean_status_name(raw_name) ==
    IF raw_name = "" THEN "N/A"
    \* '[' in raw_name: raw_name.split(':')[1].split('[')[0].strip().upper()
    ELSE IF raw_name = "Jira: Closed [6]" THEN "CLOSED"
    \* raw_name.strip().upper()
    ELSE raw_name

\* a dict from status names to durations
EmptyDict == [name \in {} |-> 0]

\* d[key] = d.get(key, timedelta(0)) + value
DictAdd(d, key, value) ==
    [name \in DOMAIN d \cup {key} |->
        (IF name \in DOMAIN d THEN d[name] ELSE 0) + (IF name = key THEN value ELSE 0)]

IsStatus(act) == act.feld_name = "Status"

OfEpic(act) == act.issue_key = epic_id

\* the synthetic event placed at the first change of the status
FirstEventTime_firstStatus(epic_activities) ==
    LET changes == SelectSeq(epic_activities, IsStatus)
    IN  IF changes = <<>> THEN epic_activities[1].zeitstempel_iso
        ELSE changes[1].zeitstempel_iso

\* line 51: epic_start_time_iso = epic_activities[0]['zeitstempel_iso']
FirstEventTime(epic_activities) == epic_activities[1].zeitstempel_iso

\* lines 49-52: the status changes, behind the synthetic FUNNEL event
EpicStatusChanges(epic_activities) ==
    <<[zeitstempel_iso |-> FirstEventTime(epic_activities), neuer_wert |-> "FUNNEL"]>>
    \o [i \in 1..Len(SelectSeq(epic_activities, IsStatus)) |->
          [zeitstempel_iso |-> SelectSeq(epic_activities, IsStatus)[i].zeitstempel_iso,
           neuer_wert |-> SelectSeq(epic_activities, IsStatus)[i].neuer_wert]]

\* the interval is counted for the status it ends with
IntervalStatus_end(start_act, end_act) == _clean_status_name(end_act.neuer_wert)

\* line 56: status_name = self._clean_status_name(start_act.get('neuer_wert'))
IntervalStatus(start_act, end_act) == _clean_status_name(start_act.neuer_wert)

\* lines 54-59: the loop over the consecutive pairs, from pair i on
RECURSIVE PairDurations(_, _, _)
PairDurations(changes, i, d) ==
    IF i > Len(changes) - 1 THEN d
    ELSE PairDurations(changes, i + 1,
            DictAdd(d, IntervalStatus(changes[i], changes[i + 1]),
                    changes[i + 1].zeitstempel_iso - changes[i].zeitstempel_iso))

_calculate_epic_status_durations(activities) ==
    LET epic_activities == SelectSeq(activities, OfEpic)
    IN  IF epic_activities = <<>> THEN EmptyDict
        ELSE LET changes == EpicStatusChanges(epic_activities)
                 last_change == changes[Len(changes)]
             IN  DictAdd(PairDurations(changes, 1, EmptyDict),
                         _clean_status_name(last_change.neuer_wert),
                         now - last_change.zeitstempel_iso)

\* line 94: story_keys
story_keys == {k \in Keys : IssueDetailsType(k) = "Story"}

\* lines 96-100: the loop over story_activities; a time is <<>> for None and
\* <<t>> for the timestamp t
RECURSIVE CodingWindow(_, _, _)
CodingWindow(activities, start_time, end_time) ==
    IF activities = <<>> THEN [start_time |-> start_time, end_time |-> end_time]
    ELSE LET activity == Head(activities)
             counts == activity.issue_key \in story_keys /\ IsStatus(activity)
             to_status == _clean_status_name(activity.neuer_wert)
         IN  CodingWindow(Tail(activities),
                IF counts /\ start_time = <<>> /\ to_status = "IN PROGRESS"
                THEN <<activity.zeitstempel_iso>> ELSE start_time,
                IF counts /\ to_status \in {"RESOLVED", "CLOSED"}
                THEN <<activity.zeitstempel_iso>> ELSE end_time)

\* lines 103-116: coding_duration, with the timestamps counted in days;
\* "Nicht gestartet" is [started |-> FALSE], and "<months> Monate, <days>
\* Tage" the record of the two numbers, divided as Python divides
coding_duration(start_time, end_time) ==
    IF start_time = <<>> THEN [started |-> FALSE]
    ELSE LET end_dt == IF end_time # <<>> THEN end_time[1] ELSE now
             total_days == end_dt - start_time[1]
         IN  [started |-> TRUE, months |-> total_days \div 30, days |-> total_days % 30]

\* analyze
StatusAnalyze ==
    /\ apc = "provided"
    /\ analysis' =
          IF all_activities = <<>>
          THEN [returned |-> TRUE, empty |-> TRUE]
          ELSE LET window == CodingWindow(all_activities, <<>>, <<>>)
               IN  [returned |-> TRUE, empty |-> FALSE,
                    epic_status_durations |->
                        _calculate_epic_status_durations(all_activities),
                    coding_start_time |-> window.start_time,
                    coding_end_time |-> window.end_time,
                    coding_duration |->
                        coding_duration(window.start_time, window.end_time)]
    /\ apc' = "analyzed"
    /\ UNCHANGED <<issue_tree, json_dir, all_activities, issue_edges, creep, backlog,
                   pipelineVars>>
    /\ UNCHANGED <<treeVars, issue_log, scraperVars>>

\* the files of json_dir and the issue tree before the provider is built
StatusInit ==
    /\ TreeIdle
    /\ ScraperIdle
    /\ issue_log = <<>>
    \* MaxEvents activities in all; only a file without activities may be
    \* missing or corrupt
    /\ \E a1 \in ActivityLists(MaxEvents) :
         \E a2 \in ActivityLists(MaxEvents - Len(a1)) :
           \E a3 \in ActivityLists(MaxEvents - Len(a1) - Len(a2)) :
             \E f3 \in (IF a3 = <<>> THEN {"ok", "missing", "corrupt"} ELSE {"ok"}) :
               json_dir = [k \in Keys |->
                              IF k = "K-1" THEN IssueFile("Business Epic", a1)
                              ELSE IF k = "K-2" THEN IssueFile("Story", a2)
                              ELSE IF f3 = "ok" THEN IssueFile("Story", a3)
                              ELSE [file |-> f3]]
    /\ issue_tree \in TreeOrders
    /\ apc = "new"
    /\ all_activities = <<>>
    /\ analysis = [returned |-> FALSE]
    /\ issue_edges = {}
    /\ creep = [returned |-> FALSE]
    /\ backlog = [returned |-> FALSE]
    /\ PipelineIdle

StatusNext ==
    \/ GatherAllActivities
    \/ StatusAnalyze

StatusSpec == StatusInit /\ [][StatusNext]_vars

(***************************************************************************)
(* C13-C16: status durations, coding window, activity stream, stated on    *)
(* the stored activities.                                                  *)
(***************************************************************************)
Analyzed == apc = "analyzed" /\ analysis.returned /\ ~analysis.empty

\* the issues whose activities the provider reads
InTree(k) == \E i \in 1..Len(issue_tree) : issue_tree[i] = k

\* the stored activities of an issue of the tree
ActivitiesOf(k) ==
    IF InTree(k) /\ json_dir[k].file = "ok" THEN json_dir[k].activities ELSE <<>>

RECURSIVE DictSum(_, _)
DictSum(d, names) ==
    IF names = {} THEN 0
    ELSE LET name == CHOOSE x \in names : TRUE
         IN  d[name] + DictSum(d, names \ {name})

\* C13: for an issue with at least one activity, the values of its
\* status-duration map sum to now - t0, t0 the timestamp of its first activity.
C13_DurationsSumToElapsed ==
    (Analyzed /\ ActivitiesOf(epic_id) # <<>>) =>
        LET d == analysis.epic_status_durations
        IN  DictSum(d, DOMAIN d) = now - ActivitiesOf(epic_id)[1].zeitstempel_iso

\* an analysis of an epic whose first activity is not a status change and
\* whose status changed twice later
C13_Witness ==
    /\ Analyzed
    /\ Len(ActivitiesOf(epic_id)) = 3
    /\ ~IsStatus(ActivitiesOf(epic_id)[1])
    /\ IsStatus(ActivitiesOf(epic_id)[2])
    /\ IsStatus(ActivitiesOf(epic_id)[3])
    /\ ActivitiesOf(epic_id)[1].zeitstempel_iso < ActivitiesOf(epic_id)[2].zeitstempel_iso

\* the status the epic is in at time tau: the new value of its last status
\* change up to tau, FUNNEL before the first one
StatusAtTime(tau) ==
    LET acts == ActivitiesOf(epic_id)
        upTo == {i \in 1..Len(acts) : IsStatus(acts[i]) /\ acts[i].zeitstempel_iso <= tau}
    IN  IF upTo = {} THEN "FUNNEL"
        ELSE _clean_status_name(acts[CHOOSE i \in upTo : \A j \in upTo : j <= i].neuer_wert)

\* the statuses the epic went through
StatusesEntered ==
    {"FUNNEL"} \cup
    {_clean_status_name(ActivitiesOf(epic_id)[i].neuer_wert) :
        i \in {j \in 1..Len(ActivitiesOf(epic_id)) : IsStatus(ActivitiesOf(epic_id)[j])}}

\* the epic's activities are the three status changes of the scenario
Scenario(t1, t2, t3) ==
    ActivitiesOf(epic_id) =
        <<[feld_name |-> "Status", neuer_wert |-> "ANALYSIS", zeitstempel_iso |-> t1],
          [feld_name |-> "Status", neuer_wert |-> "IN PROGRESS", zeitstempel_iso |-> t2],
          [feld_name |-> "Status", neuer_wert |-> "Jira: Closed [6]", zeitstempel_iso |-> t3]>>

\* C14: the duration of a status S is the total length of the intervals, from
\* the first activity (status FUNNEL) to now, in which the last status change
\* had the normalized new value S; for the changes to ANALYSIS at t1, to
\* IN PROGRESS at t2 and to CLOSED at t3 the map is FUNNEL: 0, ANALYSIS: t2-t1,
\* IN PROGRESS: t3-t2, CLOSED: now-t3.
C14_DurationPerStatus ==
    (Analyzed /\ ActivitiesOf(epic_id) # <<>>) =>
        LET d == analysis.epic_status_durations
            t0 == ActivitiesOf(epic_id)[1].zeitstempel_iso
        IN  /\ DOMAIN d = StatusesEntered
            /\ \A S \in DOMAIN d :
                  d[S] = Cardinality({tau \in t0..(now - 1) : StatusAtTime(tau) = S})
            /\ \A t1, t2, t3 \in Times :
                  (t1 < t2 /\ t2 < t3 /\ Scenario(t1, t2, t3)) =>
                      /\ DOMAIN d = {"FUNNEL", "ANALYSIS", "IN PROGRESS", "CLOSED"}
                      /\ d["FUNNEL"] = 0
                      /\ d["ANALYSIS"] = t2 - t1
                      /\ d["IN PROGRESS"] = t3 - t2
                      /\ d["CLOSED"] = now - t3

\* the analysis of the scenario with the last change NowOffset days ago
C14_Witness ==
    /\ Analyzed
    /\ \E t1, t2, t3 \in Times :
          t1 < t2 /\ t2 < t3 /\ Scenario(t1, t2, t3) /\ now - t3 = NowOffset
    /\ analysis.epic_status_durations["CLOSED"] = NowOffset

\* the timestamps of the status changes of Stories of the tree to one of
\* the statuses
StoryTimes(statuses) ==
    UNION {{ActivitiesOf(k)[i].zeitstempel_iso :
               i \in {j \in 1..Len(ActivitiesOf(k)) :
                         /\ IsStatus(ActivitiesOf(k)[j])
                         /\ _clean_status_name(ActivitiesOf(k)[j].neuer_wert) \in statuses}} :
           k \in story_keys}

Earliest(times) == IF times = {} THEN <<>> ELSE <<CHOOSE t \in times : \A u \in times : t <= u>>

Latest(times) == IF times = {} THEN <<>> ELSE <<CHOOSE t \in times : \A u \in times : u <= t>>

\* C15: coding_end is the timestamp of the first Status event of any Story
\* whose normalized new status is RESOLVED or CLOSED (null when there is
\* none), coding_start that of the first one whose new status is IN PROGRESS.
C15_CodingWindowFirst ==
    Analyzed =>
        /\ analysis.coding_end_time = Earliest(StoryTimes({"RESOLVED", "CLOSED"}))
        /\ analysis.coding_start_time = Earliest(StoryTimes({"IN PROGRESS"}))

\* what analyze reports: the first IN PROGRESS event and the last RESOLVED
\* or CLOSED event
C15_CodingEndIsLast ==
    Analyzed =>
        /\ analysis.coding_end_time = Latest(StoryTimes({"RESOLVED", "CLOSED"}))
        /\ analysis.coding_start_time = Earliest(StoryTimes({"IN PROGRESS"}))

Stored(act) ==
    [feld_name |-> act.feld_name, neuer_wert |-> act.neuer_wert,
     zeitstempel_iso |-> act.zeitstempel_iso]

\* the activities of the stream that carry the issue_key k, as stored
StreamOf(k) ==
    LET mine == SelectSeq(all_activities, LAMBDA act : act.issue_key = k)
    IN  [i \in 1..Len(mine) |-> Stored(mine[i])]

\* position of node k in the order of the graph
NodeIndex(k) == CHOOSE i \in 1..Len(issue_tree) : issue_tree[i] = k

\* C16: the activity stream holds every stored activity of every node of the
\* graph exactly once, with the key of its issue, and nothing else; it is
\* ascending in the timestamp; activities of equal timestamp keep the order
\* of their issue's list and, between issues, the order of the nodes.
C16_StableSortedStream ==
    apc \in {"provided", "analyzed"} =>
        /\ \A k \in Keys : StreamOf(k) = ActivitiesOf(k)
        /\ \A i \in 1..Len(all_activities) : InTree(all_activities[i].issue_key)
        /\ \A i, j \in 1..Len(all_activities) :
              i < j =>
                 /\ all_activities[i].zeitstempel_iso <= all_activities[j].zeitstempel_iso
                 /\ (/\ all_activities[i].zeitstempel_iso = all_activities[j].zeitstempel_iso
                     /\ all_activities[i].issue_key # all_activities[j].issue_key)
                    => NodeIndex(all_activities[i].issue_key)
                          < NodeIndex(all_activities[j].issue_key)

\* a stream in which an activity of a later node precedes one of an earlier
\* node, and two different activities of one issue have the same timestamp
C16_Witness ==
    /\ apc = "provided"
    /\ \E i, j \in 1..Len(all_activities) :
          /\ i < j
          /\ NodeIndex(all_activities[i].issue_key) > NodeIndex(all_activities[j].issue_key)
    /\ \E i, j \in 1..Len(all_activities) :
          /\ i < j
          /\ all_activities[i].issue_key = all_activities[j].issue_key
          /\ all_activities[i].zeitstempel_iso = all_activities[j].zeitstempel_iso
          /\ all_activities[i] # all_activities[j]

(***************************************************************************)
(* Part 4: TimeCreepAnalyzer (src/src/features/time_creep_analyzer.py)     *)
(***************************************************************************)
\* number of activities stored for the root issue
MaxCreepEvents == 3

\* timestamps of the activities: two instants on day 1, one on days 2 and 3
CreepTimes == {11, 12, 21, 31}

\* zeitstempel_iso[:10], the day of a timestamp
DayOf(zeitstempel_iso) == zeitstempel_iso \div 10

\* datetime.date, numbered so that dates are ordered as their numbers
DateNum(year, month, day) == (year * 12 + (month - 1)) * 31 + (day - 1)

ALLOWED_TYPES == {"Business Epic", "Portfolio Epic", "Initiative", "Epic"}

ALLOWED_FIELDS == {"Target end", "Fix Version/s"}

\* new values of Target end activities; "" is a cleared field
TargetEndValues == {"2025-06-01", "2025-07-01", "2025-06-15", ""}

\* new values of Fix Version/s activities
FixVersionValues == {"PI28", "Q3_25", ""}

CreepActivities ==
    [feld_name : {"Target end"}, neuer_wert : TargetEndValues, zeitstempel_iso : CreepTimes]
    \cup [feld_name : {"Fix Version/s"}, neuer_wert : FixVersionValues,
          zeitstempel_iso : CreepTimes]
    \cup [feld_name : {"Description"}, neuer_wert : {"[...]"}, zeitstempel_iso : {11}]

\* the activity lists of at most n activities, in chronological order; the
\* Description entry, if any, is the one of the creation of the issue
RECURSIVE CreepLists(_)
CreepLists(n) ==
    IF n <= 0 THEN {<<>>}
    ELSE LET shorter == CreepLists(n - 1)
         IN  shorter \cup
             {Append(p[1], p[2]) :
                p \in {q \in shorter \X CreepActivities :
                          /\ Len(q[1]) = n - 1
                          /\ Follows(q[1], q[2])
                          /\ q[2].feld_name = "Description" => q[1] = <<>>}}

\* datetime.fromisoformat(date_str).date(), on the date strings of the model
IsoDate(date_str) ==
    IF date_str = "2025-06-01" THEN DateNum(2025, 6, 1)
    ELSE IF date_str = "2025-07-01" THEN DateNum(2025, 7, 1)
    ELSE DateNum(2025, 6, 15)

\* a range is <<start, end>>, and <<>> for None
_parse_any_date_string(date_str) ==
    IF date_str = "" THEN <<>>
    ELSE <<IsoDate(date_str), IsoDate(date_str)>>

\* re.search(r'PI(\d+)', version_string): the number, on the labels of the model
PiMatch(version_string) == IF version_string = "PI28" THEN <<28>> ELSE <<>>

\* re.search(r'Q(\d)_(\d{2})', version_string): quarter and year
QMatch(version_string) ==
    IF version_string = "Q3_25" THEN <<3, 25>>
    ELSE IF version_string = "Q5_25" THEN <<5, 25>>
    ELSE <<>>

\* line 90: end_day
EndDay(year, end_month) ==
    IF end_month \in {1, 3, 5, 7, 8, 10, 12} THEN 31
    ELSE IF end_month \in {4, 6, 9, 11} THEN 30
    ELSE IF year % 4 = 0 THEN 29 ELSE 28

\* lines 87-93
QuarterRange(year, quarter) ==
    LET start_month == (quarter - 1) * 3 + 1
        end_month == start_month + 2
    IN  <<DateNum(year, start_month, 1),
          DateNum(year, end_month, EndDay(year, end_month))>>

\* line 91: date(year, start_month, 1) raises ValueError for a month above
\* 12, which is what a label Q<n>_<yy> with n above 4 leads to
_parse_fix_version_raises(version_string) ==
    /\ version_string # ""
    /\ PiMatch(version_string) = <<>>
    /\ QMatch(version_string) # <<>>
    /\ 2000 + QMatch(version_string)[2] # 0
    /\ QMatch(version_string)[1] # 0
    /\ (QMatch(version_string)[1] - 1) * 3 + 1 > 12

\* the range of the label, for a label the call does not raise on
_parse_fix_version_to_date(version_string) ==
    IF version_string = "" THEN <<>>
    ELSE IF PiMatch(version_string) # <<>>
    THEN LET pi_offset == PiMatch(version_string)[1] - 27
         IN  QuarterRange(2000 + 25 + (pi_offset \div 4), (pi_offset % 4) + 1)
    ELSE IF QMatch(version_string) # <<>>
    THEN QuarterRange(2000 + QMatch(version_string)[2], QMatch(version_string)[1])
    ELSE <<>>

\* a first value taken for a later one
_compare_dates_noSet(old_date, new_date) ==
    IF old_date = <<>> /\ new_date # <<>> THEN "TIME_CREEP"
    ELSE IF old_date # <<>> /\ new_date = <<>> THEN "none"
    ELSE IF old_date # <<>> /\ new_date # <<>> /\ new_date # old_date
    THEN (IF new_date[1] > old_date[1] THEN "TIME_CREEP" ELSE "TIME_PULL_IN")
    ELSE "none"

\* later and earlier exchanged
_compare_dates_swapped(old_date, new_date) ==
    IF old_date = <<>> /\ new_date # <<>> THEN "TIME_SET"
    ELSE IF old_date # <<>> /\ new_date # <<>> /\ new_date # old_date
    THEN (IF new_date[1] > old_date[1] THEN "TIME_PULL_IN" ELSE "TIME_CREEP")
    ELSE "none"

\* _compare_dates: the event_type, "none" for no event; a date is <<d>>, and
\* <<>> for None
_compare_dates(old_date, new_date) ==
    IF old_date = <<>> /\ new_date # <<>> THEN "TIME_SET"
    ELSE IF old_date # <<>> /\ new_date = <<>> THEN "none"
    ELSE IF old_date # <<>> /\ new_date # <<>> /\ new_date # old_date
    THEN (IF new_date[1] > old_date[1] THEN "TIME_CREEP" ELSE "TIME_PULL_IN")
    ELSE "none"

\* the first activity of the day for the field
LastActivity_first(daily_activities, field) ==
    LET idx == {i \in 1..Len(daily_activities) : daily_activities[i].feld_name = field}
    IN  IF idx = {} THEN <<>>
        ELSE <<daily_activities[CHOOSE i \in idx : \A j \in idx : i <= j]>>

\* line 245: next((a for a in reversed(daily_activities) if a.get('feld_name') == f),
\* None); <<>> for None
LastActivity(daily_activities, field) ==
    LET idx == {i \in 1..Len(daily_activities) : daily_activities[i].feld_name = field}
    IN  IF idx = {} THEN <<>>
        ELSE <<daily_activities[CHOOSE i \in idx : \A j \in idx : j <= i]>>

\* line 255: start_of_day_state
StartOfDayState(day_str, creation_date_str, old_state) ==
    IF day_str = creation_date_str THEN <<>> ELSE old_state

\* the range has to hold the date strictly after its start
ContainsTargetEnd_afterStart(new_range, target_end_state) ==
    /\ new_range # <<>>
    /\ target_end_state # <<>>
    /\ new_range[1] < target_end_state[1].range[2]
    /\ target_end_state[1].range[2] <= new_range[2]

\* lines 267-270: new_range and target_end_date and
\* new_range[0] <= target_end_date <= new_range[1]
ContainsTargetEnd(new_range, target_end_state) ==
    /\ new_range # <<>>
    /\ target_end_state # <<>>
    /\ new_range[1] <= target_end_state[1].range[2]
    /\ target_end_state[1].range[2] <= new_range[2]

\* lines 248-284: one field of one day; `known` is current_known_states, a
\* state being <<>> for None and <<[label, range]>> otherwise
FieldStep(issue_key, day_str, creation_date_str, field, activity, known, events) ==
    LET raw_new_str == activity.neuer_wert
        new_range == IF field = "Target end" THEN _parse_any_date_string(raw_new_str)
                     ELSE _parse_fix_version_to_date(raw_new_str)
        start_of_day_state == StartOfDayState(day_str, creation_date_str, known[field])
        old_end_date == IF start_of_day_state = <<>> THEN <<>>
                        ELSE <<start_of_day_state[1].range[2]>>
        new_end_date == IF new_range = <<>> THEN <<>> ELSE <<new_range[2]>>
        event_type ==
            IF field = "Fix Version/s" /\ ContainsTargetEnd(new_range, known["Target end"])
            THEN "none"
            ELSE IF old_end_date # new_end_date
            THEN _compare_dates(old_end_date, new_end_date)
            ELSE "none"
    IN  [known |-> IF new_range # <<>>
                   THEN [known EXCEPT ![field] = <<[label |-> raw_new_str,
                                                    range |-> new_range]>>]
                   ELSE known,
         events |-> IF event_type # "none"
                    THEN Append(events, [issue |-> issue_key, field |-> field,
                                         event_type |-> event_type,
                                         timestamp |-> day_str])
                    ELSE events]

\* lines 245-284: the fields of one day, in the order the set ALLOWED_FIELDS
\* is iterated in
RECURSIVE DaySteps(_, _, _, _, _, _, _)
DaySteps(issue_key, day_str, creation_date_str, daily_activities, order, known, events) ==
    IF order = <<>> THEN [known |-> known, events |-> events]
    ELSE LET activity == LastActivity(daily_activities, Head(order))
             r == IF activity = <<>> THEN [known |-> known, events |-> events]
                  ELSE FieldStep(issue_key, day_str, creation_date_str, Head(order),
                                 activity[1], known, events)
         IN  DaySteps(issue_key, day_str, creation_date_str, daily_activities,
                      Tail(order), r.known, r.events)

\* lines 237-239: the days of activities_by_day, in the order of insertion
RECURSIVE DaysOf(_)
DaysOf(activities) ==
    IF activities = <<>> THEN <<>>
    ELSE LET before == DaysOf(SubSeq(activities, 1, Len(activities) - 1))
             day == DayOf(activities[Len(activities)].zeitstempel_iso)
         IN  IF \E i \in 1..Len(before) : before[i] = day THEN before
             ELSE Append(before, day)

\* lines 244-284: the loop over activities_by_day.items(), from day i on
RECURSIVE DaysLoop(_, _, _, _, _, _, _, _)
DaysLoop(issue_key, creation_date_str, relevant, days, i, order, known, events) ==
    IF i > Len(days) THEN events
    ELSE LET daily_activities ==
                 SelectSeq(relevant, LAMBDA a : DayOf(a.zeitstempel_iso) = days[i])
             r == DaySteps(issue_key, days[i], creation_date_str, daily_activities,
                           order, known, events)
         IN  DaysLoop(issue_key, creation_date_str, relevant, days, i + 1, order,
                      r.known, r.events)

\* events.sort(key=lambda x: x['timestamp']), a stable sort
RECURSIVE SortEvents(_)
SortEvents(events) ==
    IF events = <<>> THEN <<>>
    ELSE LET x == events[Len(events)]
             sorted == SortEvents(SubSeq(events, 1, Len(events) - 1))
             n == Cardinality({i \in 1..Len(sorted) : sorted[i].timestamp <= x.timestamp})
         IN  SubSeq(sorted, 1, n) \o <<x>> \o SubSeq(sorted, n + 1, Len(sorted))

\* min(act['zeitstempel_iso'] for act in issue_activities)
MinTimestamp(activities) ==
    CHOOSE t \in {activities[i].zeitstempel_iso : i \in 1..Len(activities)} :
        \A i \in 1..Len(activities) : t <= activities[i].zeitstempel_iso

\* lines 224-288: the events of one issue of nodes_to_analyze
IssueEvents(issue_key, order) ==
    LET issue_activities == SelectSeq(all_activities, LAMBDA a : a.issue_key = issue_key)
        relevant == StableSort(SelectSeq(issue_activities,
                                         LAMBDA a : a.feld_name \in ALLOWED_FIELDS))
    IN  IF issue_activities = <<>> THEN <<>>
        ELSE IF IssueDetailsType(issue_key) \notin ALLOWED_TYPES THEN <<>>
        ELSE IF relevant = <<>> THEN <<>>
        ELSE SortEvents(
                DaysLoop(issue_key, DayOf(MinTimestamp(issue_activities)), relevant,
                         DaysOf(relevant), 1, order,
                         [f \in ALLOWED_FIELDS |-> <<>>], <<>>))

\* lines 224-250: the loop over the days of one issue reaches a Fix Version/s
\* value, the last of its day, on which _parse_fix_version_to_date raises
IssueRaises(issue_key) ==
    LET issue_activities == SelectSeq(all_activities, LAMBDA a : a.issue_key = issue_key)
        relevant == SelectSeq(issue_activities, LAMBDA a : a.feld_name \in ALLOWED_FIELDS)
    IN  /\ IssueDetailsType(issue_key) \in ALLOWED_TYPES
        /\ \E i \in 1..Len(relevant) :
              LET daily_activities ==
                      SelectSeq(relevant, LAMBDA a : DayOf(a.zeitstempel_iso)
                                                       = DayOf(relevant[i].zeitstempel_iso))
                  activity == LastActivity(StableSort(daily_activities), "Fix Version/s")
              IN  /\ activity # <<>>
                  /\ _parse_fix_version_raises(activity[1].neuer_wert)

\* every node of the tree
nodes_to_analyze_all == issue_tree

\* line 212: [root_node_key] + list(issue_tree.successors(root_node_key))
nodes_to_analyze ==
    <<epic_id>> \o SelectSeq(issue_tree, LAMBDA k : <<epic_id, k>> \in issue_edges)

\* lines 290-294: the events of the analysed nodes, one node after the other
RECURSIVE CollectEvents(_, _)
CollectEvents(nodes, node_events) ==
    IF nodes = <<>> THEN <<>>
    ELSE node_events[Head(nodes)] \o CollectEvents(Tail(nodes), node_events)

\* lines 131-137: time_creep_str is empty
NoCreepEvent(all_events) ==
    \A i \in 1..Len(all_events) : all_events[i].event_type # "TIME_CREEP"

\* what self.azure_client.completion can do when it is called: return the
\* text, or raise
LlmOutcomes(all_events) ==
    IF NoCreepEvent(all_events) THEN {"not_called"} ELSE {"text", "raises"}

\* without the except branch: the exception leaves the function
_generate_llm_summary_uncaught(all_events, llm) ==
    IF NoCreepEvent(all_events) THEN "no_creep"
    ELSE IF llm = "raises" THEN "RAISED"
    ELSE "llm_text"

\* _generate_llm_summary: the fixed sentence without a TIME_CREEP event,
\* otherwise the text of the model, or the fallback of the except branch;
\* "RAISED" stands for an exception that leaves the function
_generate_llm_summary(all_events, llm) ==
    IF NoCreepEvent(all_events) THEN "no_creep"
    ELSE IF llm = "raises" THEN "llm_failed"
    ELSE "llm_text"

\* the orders a set of two strings can be iterated in
FieldOrders == {<<"Target end", "Fix Version/s">>, <<"Fix Version/s", "Target end">>}

\* analyze
TimeCreepAnalyze ==
    /\ apc = "provided"
    /\ \E order \in FieldOrders :
         IF ~\E i \in 1..Len(issue_tree) : issue_tree[i] = epic_id
         THEN creep' = [returned |-> TRUE, field_order |-> order,
                        node_events |-> [k \in Keys |-> <<>>],
                        time_creep_events |-> <<>>,
                        llm_time_creep_summary |-> "no_root",
                        llm |-> "not_called"]
         ELSE IF \E i \in 1..Len(nodes_to_analyze) : IssueRaises(nodes_to_analyze[i])
         \* nothing in analyze catches the ValueError
         THEN creep' = [returned |-> FALSE, llm |-> "not_called",
                        raised |-> "ValueError"]
         ELSE LET analysed == {nodes_to_analyze[i] : i \in 1..Len(nodes_to_analyze)}
                  node_events == [k \in Keys |-> IF k \in analysed
                                                 THEN IssueEvents(k, order) ELSE <<>>]
                  all_events == SortEvents(CollectEvents(nodes_to_analyze, node_events))
              IN  \E llm \in LlmOutcomes(all_events) :
                     LET llm_summary == _generate_llm_summary(all_events, llm)
                     IN  creep' =
                            IF llm_summary = "RAISED"
                            THEN [returned |-> FALSE, llm |-> llm]
                            ELSE [returned |-> TRUE, field_order |-> order,
                                  node_events |-> node_events,
                                  time_creep_events |-> all_events,
                                  llm_time_creep_summary |-> llm_summary,
                                  llm |-> llm]
    /\ apc' = "creep_done"
    /\ UNCHANGED <<issue_tree, json_dir, all_activities, analysis, issue_edges,
                   backlog, pipelineVars>>
    /\ UNCHANGED <<treeVars, issue_log, scraperVars>>

\* the activity lists of the issues below the root: no activity, or one
\* change of a tracked field on day 2
OtherLists(any) ==
    {<<>>} \cup
    (IF any
     THEN {<<e>> : e \in {x \in CreepActivities :
                             /\ x.zeitstempel_iso = 21
                             /\ x.neuer_wert \in {"2025-07-01", "Q3_25"}}}
     ELSE {})

\* the provider is built: json_dir, the issue tree K-1 -> K-2 -> K-3, and the
\* activity stream; the root has MaxCreepEvents activities at most, and the
\* issues below it have one when the root has fewer
CreepInit ==
    /\ TreeIdle
    /\ ScraperIdle
    /\ issue_log = <<>>
    /\ \E a1 \in CreepLists(MaxCreepEvents) :
         \E a2 \in OtherLists(Len(a1) < MaxCreepEvents - 1) :
           \E a3 \in OtherLists(Len(a1) < MaxCreepEvents - 1) :
             \E type2 \in (IF a2 = <<>> THEN {"Epic"} ELSE {"Epic", "Story"}) :
               json_dir = [k \in Keys |->
                              IF k = "K-1" THEN IssueFile("Business Epic", a1)
                              ELSE IF k = "K-2" THEN IssueFile(type2, a2)
                              ELSE IssueFile("Epic", a3)]
    /\ issue_tree = <<"K-1", "K-2", "K-3">>
    /\ issue_edges = {<<"K-1", "K-2">>, <<"K-2", "K-3">>}
    /\ all_activities = StableSort(_gather_all_activities(issue_tree))
    /\ apc = "provided"
    /\ analysis = [returned |-> FALSE]
    /\ creep = [returned |-> FALSE]
    /\ backlog = [returned |-> FALSE]
    /\ PipelineIdle

CreepNext == TimeCreepAnalyze

CreepSpec == CreepInit /\ [][CreepNext]_vars

(***************************************************************************)
(* C17-C20: the time-creep events, stated on the stored activities.        *)
(***************************************************************************)
CreepDone == apc = "creep_done" /\ creep.returned

\* the issues analyze looks at: the root and its direct successors, of an
\* allowed type
InCreepScope(k) ==
    /\ k = epic_id \/ <<epic_id, k>> \in issue_edges
    /\ IssueDetailsType(k) \in ALLOWED_TYPES

CreepDays == {DayOf(t) : t \in CreepTimes}

\* the positions of the stored activities of k for the field on the day
ChangesOn(k, field, day) ==
    {i \in 1..Len(ActivitiesOf(k)) :
        /\ ActivitiesOf(k)[i].feld_name = field
        /\ DayOf(ActivitiesOf(k)[i].zeitstempel_iso) = day}

\* the date range a value of the field resolves to, <<>> when it has none
Resolved(field, value) ==
    IF field = "Target end" THEN _parse_any_date_string(value)
    ELSE _parse_fix_version_to_date(value)

\* the end date, as <<d>>, of the day's last value of the field
NewEnd(k, field, day) ==
    LET i == CHOOSE x \in ChangesOn(k, field, day) : \A y \in ChangesOn(k, field, day) : y <= x
        range == Resolved(field, ActivitiesOf(k)[i].neuer_wert)
    IN  IF range = <<>> THEN <<>> ELSE <<range[2]>>

\* the end date known for the field after the days up to `day`: that of the
\* latest day's last value that resolves to a range
KnownThrough(k, field, day) ==
    LET days == {d \in CreepDays : /\ d <= day
                                   /\ ChangesOn(k, field, d) # {}
                                   /\ NewEnd(k, field, d) # <<>>}
    IN  IF days = {} THEN <<>>
        ELSE NewEnd(k, field, CHOOSE d \in days : \A e \in days : e <= d)

\* the end date known for the field at the start of the day
KnownBefore(k, field, day) == KnownThrough(k, field, day - 1)

\* the classification of a transition from the end date old to the end date new
Classified(old, new) ==
    IF old = <<>> /\ new # <<>> THEN "TIME_SET"
    ELSE IF old # <<>> /\ new # <<>> /\ new[1] > old[1] THEN "TIME_CREEP"
    ELSE IF old # <<>> /\ new # <<>> /\ new[1] < old[1] THEN "TIME_PULL_IN"
    ELSE "none"

\* the Target end date known when the day's Fix Version/s change is looked
\* at: with the day's own Target end change when that field comes first
TargetEndKnownAt(k, day) ==
    IF creep.field_order[1] = "Target end" THEN KnownThrough(k, "Target end", day)
    ELSE KnownBefore(k, "Target end", day)

\* the day's last Fix Version/s value resolves to a range that contains the
\* currently known Target end date
VersionHoldsTargetEnd(k, day) ==
    LET i == CHOOSE x \in ChangesOn(k, "Fix Version/s", day) :
                 \A y \in ChangesOn(k, "Fix Version/s", day) : y <= x
        range == Resolved("Fix Version/s", ActivitiesOf(k)[i].neuer_wert)
        target == TargetEndKnownAt(k, day)
    IN  /\ range # <<>>
        /\ target # <<>>
        /\ range[1] <= target[1]
        /\ target[1] <= range[2]

\* the event types emitted for the issue, the field and the day, in order
EventTypes(k, field, day) ==
    LET mine == SelectSeq(creep.node_events[k],
                          LAMBDA e : e.field = field /\ e.timestamp = day)
    IN  [i \in 1..Len(mine) |-> mine[i].event_type]

AsEvents(type) == IF type = "none" THEN <<>> ELSE <<type>>

\* the root's activities are the three Target end changes of the scenario
CreepScenario ==
    ActivitiesOf(epic_id) =
        <<[feld_name |-> "Target end", neuer_wert |-> "2025-06-01", zeitstempel_iso |-> 11],
          [feld_name |-> "Target end", neuer_wert |-> "2025-07-01", zeitstempel_iso |-> 21],
          [feld_name |-> "Target end", neuer_wert |-> "2025-06-15", zeitstempel_iso |-> 31]>>

CreationDay(k) ==
    DayOf(CHOOSE t \in {ActivitiesOf(k)[i].zeitstempel_iso : i \in 1..Len(ActivitiesOf(k))} :
              \A i \in 1..Len(ActivitiesOf(k)) : t <= ActivitiesOf(k)[i].zeitstempel_iso)

\* C18: for every tracked field of every analysed issue, a value observed
\* on the issue's creation day is classified TIME_SET, never TIME_CREEP or
\* TIME_PULL_IN: every event of the field on that day is a TIME_SET, and a
\* value that resolves to a range and is not dropped by the Fix Version/s
\* suppression yields exactly one.
C18_CreationDayIsTimeSet ==
    CreepDone =>
        \A k \in Keys : \A field \in ALLOWED_FIELDS :
            (/\ InCreepScope(k)
             /\ ActivitiesOf(k) # <<>>
             /\ ChangesOn(k, field, CreationDay(k)) # {}) =>
                /\ \A i \in 1..Len(EventTypes(k, field, CreationDay(k))) :
                      EventTypes(k, field, CreationDay(k))[i] = "TIME_SET"
                /\ (/\ NewEnd(k, field, CreationDay(k)) # <<>>
                    /\ ~(field = "Fix Version/s" /\ VersionHoldsTargetEnd(k, CreationDay(k))))
                      => EventTypes(k, field, CreationDay(k)) = <<"TIME_SET">>

\* both tracked fields of the root get their first value on its creation
\* day, and each is a TIME_SET
C18_Witness ==
    /\ CreepDone
    /\ \A field \in ALLOWED_FIELDS :
          /\ ChangesOn(epic_id, field, CreationDay(epic_id)) # {}
          /\ EventTypes(epic_id, field, CreationDay(epic_id)) = <<"TIME_SET">>

\* C19: a Fix Version/s change of an analysed issue whose resolved date
\* range [start, end] contains the currently known Target end date (the one
\* known when the change is looked at) emits no event, whatever the
\* previously known version was.
C19_VersionHoldingTargetEndIsSilent ==
    CreepDone =>
        \A k \in Keys : \A day \in CreepDays :
            (/\ InCreepScope(k)
             /\ ChangesOn(k, "Fix Version/s", day) # {}
             /\ VersionHoldsTargetEnd(k, day)) =>
                EventTypes(k, "Fix Version/s", day) = <<>>

\* a version with another end date was known before, so that the change
\* would have been an event, and the new version holds the Target end
C19_Witness ==
    /\ CreepDone
    /\ \E day \in CreepDays :
          /\ ChangesOn(epic_id, "Fix Version/s", day) # {}
          /\ VersionHoldsTargetEnd(epic_id, day)
          /\ KnownBefore(epic_id, "Fix Version/s", day) # <<>>
          /\ KnownBefore(epic_id, "Fix Version/s", day) # NewEnd(epic_id, "Fix Version/s", day)
          /\ EventTypes(epic_id, "Fix Version/s", day) = <<>>

\* the end date, as <<d>>, of the day's first value of the field
FirstEnd(k, field, day) ==
    LET i == CHOOSE x \in ChangesOn(k, field, day) : \A y \in ChangesOn(k, field, day) : x <= y
        range == Resolved(field, ActivitiesOf(k)[i].neuer_wert)
    IN  IF range = <<>> THEN <<>> ELSE <<range[2]>>

\* C20: when a tracked field of an analysed issue changes several times on
\* one calendar day, only the day's last value is used: at most one event
\* per issue, field and day is emitted, and it is the classification of the
\* state known at the start of the day against that last value.
C20_LastValueOfTheDay ==
    CreepDone =>
        \A k \in Keys : \A field \in ALLOWED_FIELDS : \A day \in CreepDays :
            InCreepScope(k) =>
                /\ Len(EventTypes(k, field, day)) <= 1
                /\ Len(EventTypes(k, field, day)) = 1 =>
                      /\ ChangesOn(k, field, day) # {}
                      /\ EventTypes(k, field, day)[1] =
                            Classified(KnownBefore(k, field, day), NewEnd(k, field, day))

\* two changes of a field on one day, the first of which would have been
\* another event than the last, and one event, that of the last
C20_Witness ==
    /\ CreepDone
    /\ \E field \in ALLOWED_FIELDS : \E day \in CreepDays :
          /\ Cardinality(ChangesOn(epic_id, field, day)) >= 2
          /\ Len(EventTypes(epic_id, field, day)) = 1
          /\ Classified(KnownBefore(epic_id, field, day), FirstEnd(epic_id, field, day))
                \notin {"none", EventTypes(epic_id, field, day)[1]}

(***************************************************************************)
(* C21: the scope of the time-creep events                                 *)
(***************************************************************************)
\* k has a change of a tracked field with a value that resolves to a range
HasTrackedChange(k) ==
    \E i \in 1..Len(ActivitiesOf(k)) :
        /\ ActivitiesOf(k)[i].feld_name \in ALLOWED_FIELDS
        /\ Resolved(ActivitiesOf(k)[i].feld_name, ActivitiesOf(k)[i].neuer_wert) # <<>>

\* C21: analyze emits and persists events only for the root and the direct
\* successors of the root: an issue that is neither has no persisted event
\* and no returned event refers to it, whatever changes it has; the returned
\* list holds the persisted events of those issues and is in the order of the
\* timestamps.
C21_RootAndDirectChildrenOnly ==
    CreepDone =>
        /\ \A k \in Keys :
              (k # epic_id /\ <<epic_id, k>> \notin issue_edges) =>
                  creep.node_events[k] = <<>>
        /\ \A i \in 1..Len(creep.time_creep_events) :
              LET e == creep.time_creep_events[i]
              IN  /\ e.issue = epic_id \/ <<epic_id, e.issue>> \in issue_edges
                  /\ \E j \in 1..Len(creep.node_events[e.issue]) :
                        creep.node_events[e.issue][j] = e
        /\ \A k \in Keys : \A j \in 1..Len(creep.node_events[k]) :
              \E i \in 1..Len(creep.time_creep_events) :
                  creep.time_creep_events[i] = creep.node_events[k][j]
        /\ \A i, j \in 1..Len(creep.time_creep_events) :
              i < j => creep.time_creep_events[i].timestamp
                          <= creep.time_creep_events[j].timestamp

\* the grandchild has a change of a tracked field and no event, and the
\* event of the child is returned before the later one of the root
C21_Witness ==
    /\ CreepDone
    /\ HasTrackedChange("K-3")
    /\ <<epic_id, "K-3">> \notin issue_edges
    /\ creep.node_events["K-3"] = <<>>
    /\ Len(creep.time_creep_events) = 2
    /\ creep.time_creep_events[1].issue = "K-2"
    /\ creep.time_creep_events[2].issue = epic_id
    /\ creep.time_creep_events[1].timestamp < creep.time_creep_events[2].timestamp

(***************************************************************************)
(* C29-C30: the graph of build_issue_tree                                  *)
(***************************************************************************)
\* C29: for a node of issue_type "Epic" of a returned graph, every issue of
\* the record's separate list issues_in_epic that can be read and is not
\* excluded is a node of the graph and a child of the Epic.
C29_EpicListTraversed ==
    Built =>
        \A p \in G_nodes :
            store[p].issue_type = "Epic" =>
                \A i \in 1..Len(store[p].issues_in_epic) :
                    LET c == store[p].issues_in_epic[i]
                    IN  (Readable(store, c) /\ ~Excluded(store, c)) =>
                            /\ c \in G_nodes
                            /\ <<p, c>> \in G_edges

\* the number of edges of G into n
in_degree(n) == Cardinality({e \in G_edges : e[2] = n})

\* without the fallback
find_and_set_root_node_noFallback(nodes, epic) ==
    IF nodes = {} THEN {"None"}
    ELSE {n \in nodes : in_degree(n) = 0}

\* find_and_set_root_node: the values root_node can get, one for each node
\* the loop can meet first
find_and_set_root_node(nodes, epic) ==
    IF nodes = {} THEN {"None"}
    ELSE IF \E n \in nodes : in_degree(n) = 0
    THEN {n \in nodes : in_degree(n) = 0}
    ELSE {epic}

\* C30 as stated: in every returned graph the root has in-degree 0 and is
\* the only node that has.
C30_RootIsTheNodeWithoutIncomingEdge ==
    Built => {n \in G_nodes : in_degree(n) = 0} = {root_key}

\* C30 amended: in every returned graph every node other than the root has
\* an incoming edge, the root has in-degree 0 unless a followed link leads
\* back to it, and deriving the root as the node of in-degree 0, with the
\* start key as the fallback when there is none, yields the key the build
\* was started from.
C30_DerivedRootIsStartKey ==
    Built =>
        /\ \A n \in G_nodes \ {root_key} : in_degree(n) >= 1
        /\ in_degree(root_key) = 0 <=>
              ~\E p \in G_nodes : \E l \in LinksAt(store, p) :
                  Followable(store, p, l) /\ l.key = root_key
        /\ find_and_set_root_node(G_nodes, root_key) = {root_key}

\* a graph of three nodes whose root has an incoming edge
C30_Witness ==
    /\ Built
    /\ G_nodes = Keys
    /\ in_degree(root_key) >= 1

(***************************************************************************)
(* C28: the narrative of the time-creep analysis                           *)
(***************************************************************************)
\* C28: when the call of the Text Summarizer fails, analyze still returns:
\* the narrative is the fallback string, and the returned list holds every
\* persisted event of the analysed issues, the TIME_CREEP events that led to
\* the call among them.
C28_SummaryFailureDegrades ==
    (apc = "creep_done" /\ creep.llm = "raises") =>
        /\ creep.returned
        /\ creep.llm_time_creep_summary = "llm_failed"
        /\ \E i \in 1..Len(creep.time_creep_events) :
              creep.time_creep_events[i].event_type = "TIME_CREEP"
        /\ \A k \in Keys : \A j \in 1..Len(creep.node_events[k]) :
              Cardinality({i \in 1..Len(creep.time_creep_events) :
                              creep.time_creep_events[i] = creep.node_events[k][j]})
                 = Cardinality({i \in 1..Len(creep.node_events[k]) :
                                   creep.node_events[k][i] = creep.node_events[k][j]})
        /\ \A k \in Keys : \A field \in ALLOWED_FIELDS : \A day \in CreepDays :
              (InCreepScope(k) /\ Len(EventTypes(k, field, day)) = 1) =>
                  \E i \in 1..Len(creep.time_creep_events) :
                      /\ creep.time_creep_events[i].issue = k
                      /\ creep.time_creep_events[i].field = field
                      /\ creep.time_creep_events[i].timestamp = day

\* the call failed after an analysis with two events
C28_Witness ==
    /\ apc = "creep_done"
    /\ creep.llm = "raises"
    /\ creep.returned
    /\ Len(creep.time_creep_events) >= 2
    /\ creep.llm_time_creep_summary = "llm_failed"

(***************************************************************************)
(* Part 5: BacklogAnalyzer (src/src/features/backlog_analyzer.py), on a    *)
(*         provider whose stories have activities with times of the day    *)
(***************************************************************************)
\* number of activities stored for the issues below the root
MaxBacklogEvents == 3

\* new values of Status activities, as stored: cleaned and in upper case, or
\* raw
BacklogStatusValues == {"IN PROGRESS", "RESOLVED", "CLOSED", "Jira: Closed [6]"}

\* the instants of the activities: two on day 1, one on day 2
BacklogTimes == {11, 12, 21}

\* the activities of the issues below the root: changes of Status at the
\* instants of BacklogTimes, and the Description entry of the creation
BacklogActivities ==
    [feld_name : {"Status"}, neuer_wert : BacklogStatusValues,
     zeitstempel_iso : BacklogTimes]
    \cup [feld_name : {"Description"}, neuer_wert : {"[...]"}, zeitstempel_iso : {11}]

\* the activity lists of at most n activities, in chronological order
RECURSIVE BacklogLists(_)
BacklogLists(n) ==
    IF n <= 0 THEN {<<>>}
    ELSE LET shorter == BacklogLists(n - 1)
         IN  shorter \cup
             {Append(p[1], p[2]) :
                p \in {q \in shorter \X BacklogActivities :
                          /\ Len(q[1]) = n - 1
                          /\ Follows(q[1], q[2])
                          /\ q[2].feld_name = "Description" => q[1] = <<>>}}

\* date.today(): the day of the latest instant, or a later one
Todays ==
    LET last == CHOOSE t \in BacklogTimes : \A u \in BacklogTimes : u <= t
    IN  {DayOf(last), DayOf(last) + 1}

\* str.upper(), on the Status values of the model
Upper(str) == IF str = "Jira: Closed [6]" THEN "JIRA: CLOSED [6]" ELSE str

\* start_time is set by every activity of the story
StartTime_last(start_time, timestamp) == <<timestamp>>

\* lines 51-52: the first activity of a story sets its start_time
StartTime(start_time, timestamp) ==
    IF start_time = <<>> THEN <<timestamp>> ELSE start_time

\* every Status change to RESOLVED or CLOSED sets finish_time
IsFinish_last(activity, finish_time) ==
    /\ activity.feld_name = "Status"
    /\ Upper(activity.neuer_wert) \in {"RESOLVED", "CLOSED"}

\* lines 55-57: a Status change to RESOLVED or CLOSED while finish_time is
\* not set
IsFinish(activity, finish_time) ==
    /\ activity.feld_name = "Status"
    /\ Upper(activity.neuer_wert) \in {"RESOLVED", "CLOSED"}
    /\ finish_time = <<>>

\* lines 40-58: story_times after the loop over the activities; a time is
\* <<>> for None and <<t>> for the timestamp t
RECURSIVE StoryTimesLoop(_, _)
StoryTimesLoop(activities, story_times) ==
    IF activities = <<>> THEN story_times
    ELSE LET activity == Head(activities)
             issue_key == activity.issue_key
         IN  IF issue_key \notin story_keys
             THEN StoryTimesLoop(Tail(activities), story_times)
             ELSE LET timestamp == activity.zeitstempel_iso
                      old == story_times[issue_key]
                      start_time == StartTime(old.start_time, timestamp)
                      finish_time == IF IsFinish(activity, old.finish_time)
                                     THEN <<timestamp>> ELSE old.finish_time
                  IN  StoryTimesLoop(Tail(activities),
                         [story_times EXCEPT ![issue_key] =
                             [start_time |-> start_time, finish_time |-> finish_time]])

\* the guard is missing
NoValidStories_off(valid_stories) == FALSE

\* line 65: if not valid_stories
NoValidStories(valid_stories) == valid_stories = {}

\* min and max of a set of timestamps
MinOf(times) == CHOOSE t \in times : \A u \in times : t <= u

MaxOf(times) == CHOOSE t \in times : \A u \in times : u <= t

\* the latest finish time, whether or not every story has one
FinishOfAll_any(story_times, valid_stories) ==
    LET all_finish_times == {k \in valid_stories : story_times[k].finish_time # <<>>}
    IN  IF all_finish_times # {}
        THEN <<MaxOf({story_times[k].finish_time[1] : k \in all_finish_times})>>
        ELSE <<>>

\* line 74: max(all_finish_times) if every valid story has a finish time
FinishOfAll(story_times, valid_stories) ==
    LET all_finish_times == {k \in valid_stories : story_times[k].finish_time # <<>>}
    IN  IF all_finish_times # {} /\ all_finish_times = valid_stories
        THEN <<MaxOf({story_times[k].finish_time[1] : k \in valid_stories})>>
        ELSE <<>>

\* line 88: times['finish_time'].date()
FinishDate(times) == DayOf(times.finish_time[1])

\* the column itself, not its running sum
cumsum_daily(column, d, first_date) == column[d]

\* lines 93-94: DataFrame.cumsum, the sum of the column from the first day of
\* the index to day d
RECURSIVE cumsum(_, _, _)
cumsum(column, d, first_date) ==
    IF d < first_date THEN 0
    ELSE cumsum(column, d - 1, first_date) + column[d]

\* lines 80-95: results_df, a row for each day of date_index
ResultsDf(story_times, valid_stories, first_date, end_date) ==
    LET date_range == first_date..end_date
        \* lines 82-85: a story is counted on its start date if it is in the index
        refined == [d \in date_range |->
                      Cardinality({k \in valid_stories :
                                      DayOf(story_times[k].start_time[1]) = d})]
        \* lines 86-90
        finished == [d \in date_range |->
                       Cardinality({k \in valid_stories :
                                       /\ story_times[k].finish_time # <<>>
                                       /\ FinishDate(story_times[k]) = d})]
    IN  [d \in date_range |->
            [refined |-> refined[d],
             finished |-> finished[d],
             refined_backlog |-> cumsum(refined, d, first_date),
             finished_backlog |-> cumsum(finished, d, first_date),
             active_backlog |-> cumsum(refined, d, first_date)
                                - cumsum(finished, d, first_date)]]

\* analyze: the dict it returns, with the date.today() of the call;
\* [raised |-> TRUE] when an exception leaves it
BacklogResult(today) ==
    IF story_keys = {} THEN [returned |-> TRUE, error |-> "Keine Stories gefunden"]
    ELSE LET story_times ==
                 StoryTimesLoop(all_activities,
                                [k \in story_keys |->
                                    [start_time |-> <<>>, finish_time |-> <<>>]])
             valid_stories == {k \in story_keys : story_times[k].start_time # <<>>}
         IN  IF NoValidStories(valid_stories)
             THEN [returned |-> TRUE,
                   error |-> "Keine Stories mit Aktivitaeten gefunden."]
             \* min() of an empty list raises ValueError
             ELSE IF valid_stories = {} THEN [returned |-> FALSE, raised |-> TRUE]
             ELSE LET coding_start_time ==
                          MinOf({story_times[k].start_time[1] : k \in valid_stories})
                      coding_finish_time == FinishOfAll(story_times, valid_stories)
                      end_date == IF coding_finish_time # <<>>
                                  THEN DayOf(coding_finish_time[1]) ELSE today
                  IN  [returned |-> TRUE,
                       today |-> today,
                       coding_start_time |-> <<coding_start_time>>,
                       coding_finish_time |-> coding_finish_time,
                       results_df |-> ResultsDf(story_times, valid_stories,
                                                DayOf(coding_start_time), end_date)]

\* BacklogAnalyzer.analyze
BacklogAnalyze ==
    /\ apc = "provided"
    /\ \E today \in Todays :
          backlog' = BacklogResult(today)
    /\ apc' = "backlog_done"
    /\ UNCHANGED <<issue_tree, json_dir, all_activities, analysis, issue_edges, creep,
                   pipelineVars>>
    /\ UNCHANGED <<treeVars, issue_log, scraperVars>>

\* the provider is built: the root K-1 is a Business Epic without activities,
\* K-2 and K-3 below it are Stories or Epics with MaxBacklogEvents activities
\* in all; the issue tree holds the three issues, or none
AnalyzersInit ==
    /\ TreeIdle
    /\ ScraperIdle
    /\ issue_log = <<>>
    /\ \E a2 \in BacklogLists(MaxBacklogEvents) :
         \E a3 \in BacklogLists(MaxBacklogEvents - Len(a2)) :
           \E types \in {<<"Story", "Story">>, <<"Story", "Epic">>, <<"Epic", "Epic">>} :
             json_dir = [k \in Keys |->
                            IF k = "K-1" THEN IssueFile("Business Epic", <<>>)
                            ELSE IF k = "K-2" THEN IssueFile(types[1], a2)
                            ELSE IssueFile(types[2], a3)]
    /\ \E built \in BOOLEAN :
          /\ issue_tree = IF built THEN <<"K-1", "K-2", "K-3">> ELSE <<>>
          /\ issue_edges = IF built THEN {<<"K-1", "K-2">>, <<"K-1", "K-3">>} ELSE {}
          /\ ~built =>
                Len(json_dir["K-2"].activities) + Len(json_dir["K-3"].activities) <= 1
    /\ all_activities = StableSort(_gather_all_activities(issue_tree))
    /\ apc = "provided"
    /\ analysis = [returned |-> FALSE]
    /\ creep = [returned |-> FALSE]
    /\ backlog = [returned |-> FALSE]
    /\ PipelineIdle

\* one analyzer is run on the provider
AnalyzersNext ==
    \/ StatusAnalyze
    \/ TimeCreepAnalyze
    \/ BacklogAnalyze

AnalyzersSpec == AnalyzersInit /\ [][AnalyzersNext]_vars

(***************************************************************************)
(* C22-C24: the backlog series, stated on the files of the stories         *)
(***************************************************************************)
\* BacklogAnalyzer.analyze has returned the series
BacklogSeries == backlog.returned /\ "results_df" \in DOMAIN backlog

\* the stories of the provider that have an activity in the tree
ActiveStories ==
    {k \in Keys : /\ json_dir[k].issue_type = "Story"
                  /\ \E i \in 1..Len(issue_tree) : issue_tree[i] = k
                  /\ json_dir[k].activities # <<>>}

\* the instant of the first activity of story k
StartOf(k) == json_dir[k].activities[1].zeitstempel_iso

\* the instants at which story k is set to RESOLVED or CLOSED
ClosingsOf(k) ==
    {json_dir[k].activities[i].zeitstempel_iso :
        i \in {j \in 1..Len(json_dir[k].activities) :
                  /\ json_dir[k].activities[j].feld_name = "Status"
                  /\ json_dir[k].activities[j].neuer_wert \in {"RESOLVED", "CLOSED"}}}

\* the instant story k is finished: the first of its closings
FinishOf(k) == CHOOSE t \in ClosingsOf(k) : \A u \in ClosingsOf(k) : t <= u

\* C22: on every day of the series the active backlog is the refined backlog
\* minus the finished backlog, it is the number of stories started and not
\* finished by that day, and it is never negative
C22_ActiveBacklogIsDifference ==
    BacklogSeries =>
        \A d \in DOMAIN backlog.results_df :
            LET row == backlog.results_df[d]
            IN  /\ row.active_backlog = row.refined_backlog - row.finished_backlog
                /\ row.active_backlog >= 0
                /\ row.active_backlog =
                      Cardinality({k \in ActiveStories :
                                      /\ DayOf(StartOf(k)) <= d
                                      /\ ~(/\ ClosingsOf(k) # {}
                                           /\ DayOf(FinishOf(k)) <= d)})

\* a day on which one story is finished and another is still active
C22_Witness ==
    /\ BacklogSeries
    /\ \E d \in DOMAIN backlog.results_df :
          /\ backlog.results_df[d].active_backlog >= 1
          /\ backlog.results_df[d].finished_backlog >= 1

\* C23: the refined backlog and the finished backlog never decrease from one
\* day of the series to the next
C23_BacklogsNonDecreasing ==
    BacklogSeries =>
        \A d \in DOMAIN backlog.results_df :
            (d + 1) \in DOMAIN backlog.results_df =>
                /\ backlog.results_df[d + 1].refined_backlog
                      >= backlog.results_df[d].refined_backlog
                /\ backlog.results_df[d + 1].finished_backlog
                      >= backlog.results_df[d].finished_backlog

\* a day without a new or a finished story follows a day that has both
C23_Witness ==
    /\ BacklogSeries
    /\ \E d \in DOMAIN backlog.results_df :
          /\ (d + 1) \in DOMAIN backlog.results_df
          /\ backlog.results_df[d].refined >= 1
          /\ backlog.results_df[d].finished >= 1
          /\ backlog.results_df[d + 1].refined = 0
          /\ backlog.results_df[d + 1].finished = 0

\* the days of the series, from the first to the last
SeriesRuns(first, last) == DOMAIN backlog.results_df = first..last

\* C24: coding_finish_time is the latest finish time exactly when every story
\* with an activity is finished, and None otherwise; the series starts on the
\* day of the earliest start and ends on the day of the latest finish in the
\* first case, today in the second
C24_FinishTimeAndRange ==
    BacklogSeries =>
        LET first == DayOf(MinOf({StartOf(k) : k \in ActiveStories}))
            all_finished == \A k \in ActiveStories : ClosingsOf(k) # {}
        IN  /\ backlog.coding_start_time = <<MinOf({StartOf(k) : k \in ActiveStories})>>
            /\ all_finished =>
                  LET latest == MaxOf({FinishOf(k) : k \in ActiveStories})
                  IN  /\ backlog.coding_finish_time = <<latest>>
                      /\ SeriesRuns(first, DayOf(latest))
            /\ ~all_finished =>
                  /\ backlog.coding_finish_time = <<>>
                  /\ SeriesRuns(first, backlog.today)

\* one story is finished on day 1 and another is not: the series runs to
\* today, a later day
C24_Witness ==
    /\ BacklogSeries
    /\ backlog.coding_finish_time = <<>>
    /\ \E k \in ActiveStories : ClosingsOf(k) # {} /\ DayOf(FinishOf(k)) < backlog.today
    /\ \E d \in DOMAIN backlog.results_df : d = backlog.today

(***************************************************************************)
(* C26: an analyzer whose precondition fails                               *)
(***************************************************************************)
\* the preconditions: StatusAnalyzer needs an activity, BacklogAnalyzer a
\* Story with an activity, TimeCreepAnalyzer the root in the graph
StatusPreconditionFails == all_activities = <<>>

BacklogPreconditionFails == ActiveStories = {}

CreepPreconditionFails == ~\E i \in 1..Len(issue_tree) : issue_tree[i] = epic_id

\* C26 (as stated): an analyzer whose precondition fails returns a result
\* with the entry error, whether it is StatusAnalyzer, BacklogAnalyzer or
\* TimeCreepAnalyzer
C26_EveryAnalyzerReturnsError ==
    /\ (apc = "analyzed" /\ StatusPreconditionFails) =>
          analysis.returned /\ "error" \in DOMAIN analysis
    /\ (apc = "backlog_done" /\ BacklogPreconditionFails) =>
          backlog.returned /\ "error" \in DOMAIN backlog
    /\ (apc = "creep_done" /\ CreepPreconditionFails) =>
          creep.returned /\ "error" \in DOMAIN creep

\* C26 (amended): an analyzer whose precondition fails returns and does not
\* raise: BacklogAnalyzer returns the entry error with the reason,
\* StatusAnalyzer the empty result, TimeCreepAnalyzer an empty list of events
\* with the narrative that the root is missing
C26_PreconditionFailureIsReturned ==
    /\ (apc = "analyzed" /\ StatusPreconditionFails) =>
          analysis.returned /\ analysis.empty
    /\ (apc = "backlog_done" /\ BacklogPreconditionFails) =>
          /\ backlog.returned
          /\ "error" \in DOMAIN backlog
          /\ backlog.error =
                IF \E k \in Keys : json_dir[k].issue_type = "Story"
                THEN "Keine Stories mit Aktivitaeten gefunden."
                ELSE "Keine Stories gefunden"
    /\ (apc = "creep_done" /\ CreepPreconditionFails) =>
          /\ creep.returned
          /\ creep.time_creep_events = <<>>
          /\ creep.llm_time_creep_summary = "no_root"

\* BacklogAnalyzer has run on a project whose Stories have no activity
C26_Witness ==
    /\ apc = "backlog_done"
    /\ BacklogPreconditionFails
    /\ \E k \in Keys : json_dir[k].issue_type = "Story"
    /\ backlog.returned

(***************************************************************************)
(* Part 6: AnalysisRunner.run_analyses (src/src/features/                  *)
(*         analysis_runner.py) and the loop of main over the roots         *)
(*         (src/src/main_scraper.py)                                       *)
(***************************************************************************)
\* length of the list of analyzer classes
MaxAnalyzers == 3

\* number of roots of a batch
MaxRoots == 3

\* nothing is scraped, built or analysed
ProviderIdle ==
    /\ TreeIdle
    /\ ScraperIdle
    /\ issue_log = <<>>
    /\ apc = "off"
    /\ issue_tree = <<>>
    /\ json_dir = [k \in Keys |-> [file |-> "missing"]]
    /\ all_activities = <<>>
    /\ analysis = [returned |-> FALSE]
    /\ issue_edges = {}
    /\ creep = [returned |-> FALSE]
    /\ backlog = [returned |-> FALSE]

\* ANALYZERS_TO_RUN: the __name__ of the classes
AnalyzerNames == {"ScopeAnalyzer", "StatusAnalyzer", "TimeCreepAnalyzer", "BacklogAnalyzer"}

\* the lists of at most n elements of S
RECURSIVE ListsOf(_, _)
ListsOf(S, n) ==
    IF n <= 0 THEN {<<>>}
    ELSE LET shorter == ListsOf(S, n - 1)
         IN  shorter \cup {Append(l, x) : l \in {m \in shorter : Len(m) = n - 1}, x \in S}

\* what an iteration meets: the analyzer returns its result, or its
\* constructor or analyze raises an Exception
AnalyzerOutcomes == {"returns", "init_raises", "analyze_raises"}

\* str(e)
Message(outcome) == IF outcome = "init_raises" THEN "init failed" ELSE "analyze failed"

\* the exception leaves run_analyses
OnException_propagates(r, analyzer_name, outcome) ==
    [r EXCEPT !.raised = TRUE]

\* lines 52-54: except Exception as e: all_results[analyzer_name] =
\* {"error": str(e)}, and the loop goes on
OnException(r, analyzer_name, outcome) ==
    [r EXCEPT !.all_results = (analyzer_name :> [error |-> Message(outcome)]) @@ @,
              !.pos = @ + 1]

\* lines 42-54: one iteration of the loop over self.analyzer_classes
RunAnalyzer ==
    /\ runner.pos >= 1
    /\ ~runner.raised /\ ~runner.returned
    /\ runner.pos <= Len(runner.analyzer_classes)
    /\ \E outcome \in AnalyzerOutcomes :
         LET analyzer_name == runner.analyzer_classes[runner.pos]
             started == [runner EXCEPT !.executed =
                                          Append(@, [name |-> analyzer_name,
                                                     outcome |-> outcome])]
         IN  runner' =
                IF outcome = "returns"
                THEN [started EXCEPT
                         !.all_results = (analyzer_name :> [result |-> analyzer_name]) @@ @,
                         !.pos = @ + 1]
                ELSE OnException(started, analyzer_name, outcome)
    /\ UNCHANGED <<batch, resolver, apc, issue_tree, json_dir, all_activities, analysis,
                   issue_edges, creep, backlog>>
    /\ UNCHANGED <<treeVars, issue_log, scraperVars>>

\* line 56: return all_results
ReturnResults ==
    /\ runner.pos >= 1
    /\ ~runner.raised /\ ~runner.returned
    /\ runner.pos > Len(runner.analyzer_classes)
    /\ runner' = [runner EXCEPT !.returned = TRUE]
    /\ UNCHANGED <<batch, resolver, apc, issue_tree, json_dir, all_activities, analysis,
                   issue_edges, creep, backlog>>
    /\ UNCHANGED <<treeVars, issue_log, scraperVars>>

\* run_analyses is called on a runner with a list of analyzer classes
RunnerInit ==
    /\ ProviderIdle
    /\ batch = [pos |-> 0]
    /\ resolver = [called |-> FALSE]
    /\ \E analyzer_classes \in ListsOf(AnalyzerNames, MaxAnalyzers) :
          runner = [pos |-> 1, analyzer_classes |-> analyzer_classes,
                    all_results |-> <<>>, executed |-> <<>>,
                    raised |-> FALSE, returned |-> FALSE]

RunnerNext ==
    \/ RunAnalyzer
    \/ ReturnResults

RunnerSpec == RunnerInit /\ [][RunnerNext]_vars

(***************************************************************************)
(* C25: run_analyses isolates the analyzers                                *)
(***************************************************************************)
\* the position of the last occurrence of name in the list of classes
LastOf(name) ==
    CHOOSE i \in 1..Len(runner.analyzer_classes) :
        /\ runner.analyzer_classes[i] = name
        /\ \A j \in (i + 1)..Len(runner.analyzer_classes) :
              runner.analyzer_classes[j] # name

\* the call of run_analyses has ended: it has returned, or an exception has
\* left it
RunEnded == runner.pos >= 1 /\ (runner.returned \/ runner.raised)

\* C25: run_analyses returns, with one entry for every configured analyzer
\* class under the name of the class; every class of the list has been
\* executed, in the order of the list, whatever the classes before it did;
\* the entry of a class that raised is {error: message}
C25_OneEntryPerAnalyzer ==
    RunEnded =>
        /\ runner.returned
        /\ DOMAIN runner.all_results =
              {runner.analyzer_classes[i] : i \in 1..Len(runner.analyzer_classes)}
        /\ [i \in 1..Len(runner.executed) |-> runner.executed[i].name]
              = runner.analyzer_classes
        /\ \A name \in DOMAIN runner.all_results :
              LET outcome == runner.executed[LastOf(name)].outcome
              IN  IF outcome = "returns"
                  THEN "error" \notin DOMAIN runner.all_results[name]
                  ELSE runner.all_results[name] =
                          [error |-> IF outcome = "init_raises" THEN "init failed"
                                     ELSE "analyze failed"]

\* run_analyses has returned; the first analyzer raised in its constructor,
\* a later one in analyze, and the last one returned its result
C25_Witness ==
    /\ runner.pos >= 1
    /\ runner.returned
    /\ Len(runner.executed) >= 3
    /\ runner.executed[1].outcome = "init_raises"
    /\ runner.executed[2].outcome = "analyze_raises"
    /\ runner.executed[Len(runner.executed)].outcome = "returns"
    /\ Cardinality(DOMAIN runner.all_results) = Len(runner.analyzer_classes)

(***************************************************************************)
(* main: the loop of analysis and reporting over business_epics            *)
(***************************************************************************)
\* what the processing of one root meets:
\*   cached_report       the complete summary is loaded from the cache and
\*                       rendered
\*   generated_report    the summary is generated and rendered
\*   invalid_root        data_provider.is_valid() is false
\*   no_tree             build_issue_tree returns no tree for the context
\*   summary_raises      azure_summary_client.completion raises
\*   render_raises       html_generator.generate_epic_html raises
\*   translation_raises  the report is rendered and translate_file raises
EpicFates ==
    {"cached_report", "generated_report", "invalid_root", "no_tree",
     "summary_raises", "render_raises", "translation_raises"}

\* lines 259-377, the body of the loop for one root: "skipped" for continue,
\* "report" when the end of the body is reached, "raised" when an exception
\* leaves the body
ProcessEpicOutcome(fate) ==
    \* lines 279-281 and 303-305: log and continue
    IF fate \in {"invalid_root", "no_tree"} THEN "skipped"
    \* lines 311-316 and 339: the calls are in no try statement
    ELSE IF fate \in {"summary_raises", "render_raises"} THEN "raised"
    \* lines 373-377: except Exception around translate_file
    ELSE "report"

\* one iteration of for epic in business_epics
ProcessEpic ==
    /\ batch.pos >= 1
    /\ ~batch.raised /\ ~batch.ended
    /\ batch.pos <= Len(batch.business_epics)
    /\ \E fate \in EpicFates :
         LET epic == batch.business_epics[batch.pos]
             outcome == ProcessEpicOutcome(fate)
             logged == [batch EXCEPT !.outcomes =
                                        Append(@, [epic |-> epic, fate |-> fate,
                                                   outcome |-> outcome])]
         IN  batch' = IF outcome = "raised"
                      THEN [logged EXCEPT !.raised = TRUE]
                      ELSE [logged EXCEPT !.pos = @ + 1]
    /\ UNCHANGED <<runner, resolver, apc, issue_tree, json_dir, all_activities, analysis,
                   issue_edges, creep, backlog>>
    /\ UNCHANGED <<treeVars, issue_log, scraperVars>>

\* the finally clause of main: the loop is over, or an exception has left it
MainEnds ==
    /\ batch.pos >= 1
    /\ ~batch.ended
    /\ batch.raised \/ batch.pos > Len(batch.business_epics)
    /\ batch' = [batch EXCEPT !.ended = TRUE]
    /\ UNCHANGED <<runner, resolver, apc, issue_tree, json_dir, all_activities, analysis,
                   issue_edges, creep, backlog>>
    /\ UNCHANGED <<treeVars, issue_log, scraperVars>>

\* main starts the loop over the roots of the batch
BatchInit ==
    /\ ProviderIdle
    /\ runner = [pos |-> 0]
    /\ resolver = [called |-> FALSE]
    /\ \E business_epics \in ListsOf(Keys, MaxRoots) \ {<<>>} :
          batch = [pos |-> 1, business_epics |-> business_epics, outcomes |-> <<>>,
                   raised |-> FALSE, ended |-> FALSE]

BatchNext ==
    \/ ProcessEpic
    \/ MainEnds

BatchSpec == BatchInit /\ [][BatchNext]_vars

(***************************************************************************)
(* C27: a root does not abort the batch                                    *)
(***************************************************************************)
\* C27: when main has ended, every root of the batch has been processed:
\* whatever a root met, it has a report or it was skipped, and the roots
\* after it were processed too
C27_NoRootAbortsTheBatch ==
    (batch.pos >= 1 /\ batch.ended) =>
        /\ Len(batch.outcomes) = Len(batch.business_epics)
        /\ \A i \in 1..Len(batch.outcomes) :
              /\ batch.outcomes[i].epic = batch.business_epics[i]
              /\ batch.outcomes[i].outcome \in {"report", "skipped"}

(***************************************************************************)
(* Part 7: build_issue_tree called again for the same root                 *)
(*         (src/src/utils/jira_tree_classes.py)                            *)
(***************************************************************************)
\* number of links of a record that is added to the store between two builds
MaxAddedLinks == 1

\* the stores json_dir can hold when the builder is called again: the store
\* of the earlier call, or that store with a record written for one of the
\* keys whose file was missing; no file that existed is changed
LaterStores ==
    {store} \cup
    UNION {{[store EXCEPT ![k] = r] :
               r \in {f \in FilesOf(k, MaxAddedLinks, TRUE) : f.file = "ok"}} :
             k \in {m \in Keys : store[m].file = "missing"}}

\* the visited set of the earlier call is used again
FreshVisited_kept == visited

\* line 177: visited = set()
FreshVisited == {}

\* build_issue_tree is called again after it returned a graph: G and visited
\* are new objects of the call (lines 151, 177), the log file stays
Reinvoke ==
    /\ pc = "done"
    /\ result = "graph"
    /\ ~earlier.built
    /\ earlier' = [built |-> TRUE, nodes |-> G_nodes, edges |-> G_edges,
                   store |-> store]
    /\ store' \in LaterStores
    /\ pc' = "start"
    /\ G_nodes' = {}
    /\ G_edges' = {}
    /\ visited' = FreshVisited
    /\ callStack' = <<>>
    /\ result' = "pending"
    /\ expandCount' = [k \in Keys |-> 0]
    /\ callCount' = [k \in Keys |-> 0]
    /\ UNCHANGED <<root_key, include_rejected, allowed_hierarchy_types, issue_log,
                   persisted>>
    /\ UNCHANGED <<scraperVars, analyzerVars>>

\* the stores of Init on which the builder runs with the full whitelist
RebuildInit ==
    /\ Init
    /\ allowed_hierarchy_types = JIRA_TREE_MANAGEMENT

RebuildNext ==
    \/ Next
    \/ Reinvoke

RebuildSpec == RebuildInit /\ [][RebuildNext]_vars

(***************************************************************************)
(* C31: the Tree Builder called again                                      *)
(***************************************************************************)
\* the second call of build_issue_tree has returned
Rebuilt == earlier.built /\ pc = "done"

\* C31: a second call of build_issue_tree for the same root returns a graph;
\* on an unchanged store its node set and its edge set are those of the
\* first call, and on a store to which a record of a missing key was added
\* they contain the nodes and the edges of the first call
C31_RebuildContainsEarlierGraph ==
    Rebuilt =>
        /\ result = "graph"
        /\ earlier.nodes \subseteq G_nodes
        /\ earlier.edges \subseteq G_edges
        /\ store = earlier.store =>
              (G_nodes = earlier.nodes /\ G_edges = earlier.edges)

\* the first call left out a child whose file was missing; the record was
\* added and the second call returned a graph with the child
C31_Witness ==
    /\ Rebuilt
    /\ result = "graph"
    /\ earlier.nodes # {root_key}
    /\ \E c \in G_nodes \ earlier.nodes :
          /\ earlier.store[c].file = "missing"
          /\ \E p \in earlier.nodes : <<p, c>> \in G_edges

(***************************************************************************)
(* Part 8: TimeCreepAnalyzer._parse_fix_version_to_date on labels given    *)
(*         by their characters (src/src/features/time_creep_analyzer.py)   *)
(***************************************************************************)
\* length of a label
MaxLabelLen == 5

\* the characters of the labels
LabelChars == {"P", "I", "Q", "_", "0", "2", "5", "x"}

\* the labels of at most n characters
RECURSIVE Labels(_)
Labels(n) ==
    IF n <= 0 THEN {<<>>}
    ELSE LET shorter == Labels(n - 1)
         IN  shorter \cup {Append(l, c) : l \in {m \in shorter : Len(m) = n - 1},
                                           c \in LabelChars}

Digits == <<"0", "1", "2", "3", "4", "5", "6", "7", "8", "9">>

\* \d
IsDigit(c) == \E i \in 1..Len(Digits) : Digits[i] = c

DigitValue(c) == (CHOOSE i \in 1..Len(Digits) : Digits[i] = c) - 1

\* int(): the number written by the digits s[from..to]
RECURSIVE IntOf(_, _, _)
IntOf(s, from, to) ==
    IF to < from THEN 0
    ELSE 10 * IntOf(s, from, to - 1) + DigitValue(s[to])

\* re.search(r'PI(\d+)', s): <<int(group(1))>> for the leftmost match with
\* the longest run of digits, <<>> for no match
re_search_PI(s) ==
    LET starts == {i \in 1..Len(s) : /\ i + 2 <= Len(s)
                                      /\ s[i] = "P" /\ s[i + 1] = "I"
                                      /\ IsDigit(s[i + 2])}
    IN  IF starts = {} THEN <<>>
        ELSE LET i == CHOOSE a \in starts : \A b \in starts : a <= b
                 ends == {j \in (i + 2)..Len(s) : \A m \in (i + 2)..j : IsDigit(s[m])}
                 j == CHOOSE a \in ends : \A b \in ends : b <= a
             IN  <<IntOf(s, i + 2, j)>>

\* re.search(r'Q(\d)_(\d{2})', s): <<int(group(1)), int(group(2))>> for the
\* leftmost match, <<>> for no match
re_search_Q(s) ==
    LET starts == {i \in 1..Len(s) : /\ i + 4 <= Len(s)
                                      /\ s[i] = "Q" /\ IsDigit(s[i + 1])
                                      /\ s[i + 2] = "_"
                                      /\ IsDigit(s[i + 3]) /\ IsDigit(s[i + 4])}
    IN  IF starts = {} THEN <<>>
        ELSE LET i == CHOOSE a \in starts : \A b \in starts : a <= b
             IN  <<DigitValue(s[i + 1]), IntOf(s, i + 3, i + 4)>>

\* datetime.date(year, month, day): the date, or ValueError for a year, a
\* month or a day out of range
DaysIn(year, month) ==
    IF month \in {1, 3, 5, 7, 8, 10, 12} THEN 31
    ELSE IF month \in {4, 6, 9, 11} THEN 30
    ELSE IF year % 4 = 0 /\ (year % 100 # 0 \/ year % 400 = 0) THEN 29 ELSE 28

date(year, month, day) ==
    IF /\ year \in 1..9999
       /\ month \in 1..12
       /\ day \in 1..DaysIn(year, month)
    THEN [ok |-> TRUE, num |-> DateNum(year, month, day)]
    ELSE [ok |-> FALSE]

\* line 87: if year and quarter
QuarterOf(year, quarter) == year # 0 /\ quarter # 0

\* lines 69-95: what the call does with the label s: it returns a range,
\* returns None, or raises ValueError
ResolveLabel(s) ==
    IF s = <<>> THEN [result |-> "None"]
    ELSE LET pi_match == re_search_PI(s)
             q_match == re_search_Q(s)
             pi_offset == pi_match[1] - 27
             year == IF pi_match # <<>> THEN 2000 + 25 + (pi_offset \div 4)
                     ELSE IF q_match # <<>> THEN 2000 + q_match[2] ELSE 0
             quarter == IF pi_match # <<>> THEN (pi_offset % 4) + 1
                        ELSE IF q_match # <<>> THEN q_match[1] ELSE 0
         IN  IF ~QuarterOf(year, quarter) THEN [result |-> "None"]
             ELSE LET start_month == (quarter - 1) * 3 + 1
                      end_month == start_month + 2
                      start_date == date(year, start_month, 1)
                      end_date == date(year, end_month, EndDay(year, end_month))
                  IN  IF start_date.ok /\ end_date.ok
                      THEN [result |-> "range",
                            range |-> <<start_date.num, end_date.num>>,
                            year |-> year, quarter |-> quarter]
                      ELSE [result |-> "ValueError"]

\* the call _parse_fix_version_to_date(version_string)
Resolve ==
    /\ ~resolver.called
    /\ "label" \in DOMAIN resolver
    /\ resolver' = [called |-> TRUE, label |-> resolver.label]
                   @@ ResolveLabel(resolver.label)
    /\ UNCHANGED <<runner, batch, apc, issue_tree, json_dir, all_activities, analysis,
                   issue_edges, creep, backlog>>
    /\ UNCHANGED <<treeVars, issue_log, scraperVars>>

\* a label is about to be resolved
ResolverInit ==
    /\ ProviderIdle
    /\ runner = [pos |-> 0]
    /\ batch = [pos |-> 0]
    /\ \E version_string \in Labels(MaxLabelLen) :
          resolver = [called |-> FALSE, label |-> version_string]

ResolverNext == Resolve

ResolverSpec == ResolverInit /\ [][ResolverNext]_vars

(***************************************************************************)
(* C32: the resolver of Fix-Version labels                                 *)
(***************************************************************************)
\* the label holds PI<n>
HoldsPI(s) ==
    \E i \in 1..Len(s) : i + 2 <= Len(s) /\ s[i] = "P" /\ s[i + 1] = "I"
                          /\ s[i + 2] \in {"0", "2", "5"}

\* the label holds Q<n>_<yy> with n a quarter, 1..4
HoldsValidQuarter(s) ==
    \E i \in 1..Len(s) : /\ i + 4 <= Len(s)
                          /\ s[i] = "Q" /\ s[i + 1] = "2" /\ s[i + 2] = "_"
                          /\ s[i + 3] \in {"0", "2", "5"}
                          /\ s[i + 4] \in {"0", "2", "5"}

\* C32: the resolver never raises: for every label it returns a range or no
\* range, and it returns no range for every label that holds neither PI<n>
\* nor Q<n>_<yy> with n a quarter 1..4
C32_ResolverNeverRaises ==
    resolver.called =>
        /\ resolver.result \in {"range", "None"}
        /\ (~HoldsPI(resolver.label) /\ ~HoldsValidQuarter(resolver.label)) =>
              resolver.result = "None"

(***************************************************************************)
(* Part 9: the record a scraper persists for an issue, read by the Tree    *)
(*         Builder (src/src/utils/jira_scraper_api.py,                     *)
(*         src/src/utils/jira_scraper.py, src/src/utils/data_extractor.py) *)
(***************************************************************************)
\* number of links of the issue the scraper persists
MaxPersistedLinks == 1

\* the issue in the tracker: its type, its resolution ("" when it is
\* unresolved) and its links
TrackerIssues ==
    [issuetype : {"Business Epic", "Epic", "Story"},
     resolution : {"", "Done", "Rejected"},
     links : UNION {LinkSeqs("K-1", n) : n \in 0..MaxPersistedLinks}]

\* jira_scraper_api.py, _normalize_issue: the dict that is written to the
\* file of the issue; values the builder does not read are left empty
_normalize_issue(issue) ==
    [key |-> "K-1", url |-> "", summary |-> "", description |-> "",
     issuetype |-> issue.issuetype, status |-> "", assignee |-> "",
     duedate |-> "", fix_versions |-> <<>>, created |-> "", updated |-> "",
     issue_links |-> issue.links]

\* data_extractor.py, extract_issue_data, and jira_scraper.py line 217: the
\* dict the Selenium scraper writes
extract_issue_data(issue) ==
    [key |-> "K-1", issue_type |-> issue.issuetype, title |-> "", status |-> "",
     resolution |-> issue.resolution, story_points |-> "n/a", description |-> "",
     business_value |-> <<>>, assignee |-> "", priority |-> "",
     target_start |-> "", target_end |-> "", fix_versions |-> <<>>,
     acceptance_criteria |-> <<>>, components |-> <<>>, labels |-> <<>>,
     issue_links |-> issue.links, attachments |-> <<>>, activities |-> <<>>]

\* dict.get(field, default)
Get(data, field, default) == IF field \in DOMAIN data THEN data[field] ELSE default

\* what build_issue_tree and _build_issue_details_cache read of a file:
\* data.get('issue_type', ''), data.get('resolution'),
\* data['issue_links'] if present, data.get('issues_in_epic', [])
AsRead(data) ==
    [file |-> "ok",
     issue_type |-> Get(data, "issue_type", ""),
     resolution |-> Get(data, "resolution", "None"),
     issue_links |-> Get(data, "issue_links", <<>>),
     issues_in_epic |-> Get(data, "issues_in_epic", <<>>)]

\* extract_and_save_issue_data of one of the two scrapers writes the file of
\* the root; build_issue_tree is then called for it
PersistIssue ==
    /\ pc = "off"
    /\ ~persisted.written
    /\ \E by \in {"api", "selenium"}, issue \in TrackerIssues :
         LET data == IF by = "api" THEN _normalize_issue(issue)
                     ELSE extract_issue_data(issue)
         IN  /\ persisted' = [written |-> TRUE, by |-> by, issue |-> issue,
                              data |-> data]
             /\ store' = [store EXCEPT ![root_key] = AsRead(data)]
    /\ pc' = "start"
    /\ UNCHANGED <<root_key, include_rejected, allowed_hierarchy_types, G_nodes,
                   G_edges, visited, callStack, result, expandCount, callCount,
                   earlier, issue_log>>
    /\ UNCHANGED <<scraperVars, analyzerVars>>

\* no file is stored; the whitelist and include_rejected of the later build
PersistInit ==
    /\ ScraperIdle
    /\ AnalyzerIdle
    /\ store = [k \in Keys |-> NoRecord("missing")]
    /\ root_key = "K-1"
    /\ include_rejected \in BOOLEAN
    /\ allowed_hierarchy_types \in {JIRA_TREE_MANAGEMENT, JIRA_TREE_MANAGEMENT_LIGHT}
    /\ pc = "off"
    /\ G_nodes = {}
    /\ G_edges = {}
    /\ visited = {}
    /\ callStack = <<>>
    /\ result = "pending"
    /\ issue_log = <<>>
    /\ expandCount = [k \in Keys |-> 0]
    /\ callCount = [k \in Keys |-> 0]
    /\ earlier = [built |-> FALSE]
    /\ persisted = [written |-> FALSE]

PersistNext ==
    \/ PersistIssue
    \/ Next

PersistSpec == PersistInit /\ [][PersistNext]_vars

(***************************************************************************)
(* C33: the persisted record and the Tree Builder                          *)
(***************************************************************************)
\* C33: the record a scraper persists holds the fields issue_type,
\* resolution, issue_links and activities, and build_issue_tree accepts a
\* persisted root whose type is whitelisted and whose resolution is not
\* excluded
C33_PersistedRootAccepted ==
    persisted.written =>
        /\ {"issue_type", "resolution", "issue_links", "activities"}
              \subseteq DOMAIN persisted.data
        /\ (/\ pc = "done"
            /\ persisted.issue.issuetype \in DOMAIN allowed_hierarchy_types
            /\ ~(~include_rejected /\ persisted.issue.resolution = "Rejected"))
              => result = "graph"

(***************************************************************************)
(* C34: the graph is the whitelist closure of the root                     *)
(***************************************************************************)
\* the nodes that can be reached from `set` along the edges of the graph
RECURSIVE GraphReach(_)
GraphReach(set) ==
    LET more == set \cup {e[2] : e \in {f \in G_edges : f[1] \in set}}
    IN  IF more = set THEN set ELSE GraphReach(more)

\* C34: in the graph build_issue_tree returns every node can be reached from
\* the root along edges of the graph, every edge comes from a followable
\* link, and every link of a node that is whitelisted for the node's type and
\* leads to a readable record that is not excluded has its target as a node
\* and itself as an edge
C34_GraphIsWhitelistClosure ==
    Built =>
        /\ G_nodes = GraphReach({root_key})
        /\ \A e \in G_edges :
              /\ e[1] \in G_nodes
              /\ \E l \in LinksAt(store, e[1]) :
                    l.key = e[2] /\ Followable(store, e[1], l)
        /\ \A p \in G_nodes : \A l \in LinksAt(store, p) :
              Followable(store, p, l) =>
                  (l.key \in G_nodes /\ <<p, l.key>> \in G_edges)

\* a returned graph of three nodes, one of them reached through a node below
\* the root only, and a link of a node that is not followed
C34_Witness ==
    /\ Built
    /\ Cardinality(G_nodes) = 3
    /\ \E a, b \in G_nodes \ {root_key} :
          /\ a # b
          /\ {<<root_key, a>>, <<a, b>>} \subseteq G_edges
          /\ <<root_key, b>> \notin G_edges
    /\ \E p \in G_nodes : \E l \in LinksAt(store, p) : ~Followable(store, p, l)

(***************************************************************************)
(* C35-C36: the issues a run gives up, and what processed_issues holds.    *)
(***************************************************************************)
\* the issues whose fetch failed and whose record the run never obtained
GivenUp == (failedFirst \cup failedRetry) \ obtained

\* C35: no issue ends a run of the scraper as a permanent failure after a
\* single fetch attempt: every issue whose fetch failed and that the run gave
\* up, also one first reached in the second pass through the links of a
\* retried issue, was attempted a second time.
C35_GivenUpAfterSecondAttempt ==
    RunDone => \A k \in GivenUp : fetchCount[k] >= 2

\* C36: at the end of run every key in processed_issues was fetched
\* successfully or loaded from its stored record in this run, so the number
\* of processed issues that is reported is the number of records obtained,
\* and every parent the enrichment reads has a record.
C36_ProcessedWereObtained ==
    RunDone =>
        /\ processed_issues \subseteq obtained
        /\ Cardinality(processed_issues) = Cardinality(obtained)
        /\ \A p \in processed_issues : files[p].file = "ok"

(***************************************************************************)
(* C37-C38: the order of the tracked fields within a day; cleared values.  *)
(***************************************************************************)
\* the other order of iteration over ALLOWED_FIELDS
OtherOrder(order) == <<order[2], order[1]>>

\* C37: for a fixed activity stream the list of time-creep events of every
\* analysed issue is the same whichever of Target end and Fix Version/s is
\* processed first within a day: the events analyze returned are the events
\* of the other order.
C37_EventsIndependentOfFieldOrder ==
    CreepDone =>
        \A k \in Keys :
            InCreepScope(k) =>
                creep.node_events[k] = IssueEvents(k, OtherOrder(creep.field_order))

(***************************************************************************)
(* Part 10: TimeCreepAnalyzer on streams with cleared and unresolvable     *)
(*          values (src/src/features/time_creep_analyzer.py)               *)
(***************************************************************************)
\* new values of Target end activities, "" for a cleared field
ClearedTargetEndValues == {"2025-06-01", "2025-07-01", ""}

\* new values of Fix Version/s activities: two labels with a range, a cleared
\* field, a label that matches neither pattern, and a fifth quarter
UnresolvedFixVersionValues == {"PI28", "Q3_25", "", "Backlog", "Q5_25"}

\* one instant on each of the days 1, 2 and 3
ClearedTimes == {11, 21, 31}

ClearedActivities ==
    [feld_name : {"Target end"}, neuer_wert : ClearedTargetEndValues,
     zeitstempel_iso : ClearedTimes]
    \cup [feld_name : {"Fix Version/s"}, neuer_wert : UnresolvedFixVersionValues,
          zeitstempel_iso : ClearedTimes]

\* the activity lists of at most n activities, in chronological order
RECURSIVE ClearedLists(_)
ClearedLists(n) ==
    IF n <= 0 THEN {<<>>}
    ELSE LET shorter == ClearedLists(n - 1)
         IN  shorter \cup
             {Append(p[1], p[2]) :
                p \in {q \in shorter \X ClearedActivities :
                          Len(q[1]) = n - 1 /\ Follows(q[1], q[2])}}

\* the provider is built: the issue tree K-1 -> K-2 -> K-3, and a root with
\* MaxCreepEvents activities at most
ClearedInit ==
    /\ TreeIdle
    /\ ScraperIdle
    /\ issue_log = <<>>
    /\ \E a1 \in ClearedLists(MaxCreepEvents) :
         json_dir = [k \in Keys |-> IF k = "K-1" THEN IssueFile("Business Epic", a1)
                                    ELSE IssueFile("Epic", <<>>)]
    /\ issue_tree = <<"K-1", "K-2", "K-3">>
    /\ issue_edges = {<<"K-1", "K-2">>, <<"K-2", "K-3">>}
    /\ all_activities = StableSort(_gather_all_activities(issue_tree))
    /\ apc = "provided"
    /\ analysis = [returned |-> FALSE]
    /\ creep = [returned |-> FALSE]
    /\ backlog = [returned |-> FALSE]
    /\ PipelineIdle

ClearedNext == TimeCreepAnalyze

ClearedSpec == ClearedInit /\ [][ClearedNext]_vars

(***************************************************************************)
(* C38: a cleared or unresolvable value leaves the known state alone.      *)
(***************************************************************************)
\* the day's last value of the field is an empty one, or resolves to no range
NoValueOn(k, field, day) ==
    LET i == CHOOSE x \in ChangesOn(k, field, day) : \A y \in ChangesOn(k, field, day) : y <= x
        value == ActivitiesOf(k)[i].neuer_wert
    IN  \/ value = ""
        \/ field = "Fix Version/s" /\ _parse_fix_version_raises(value)
        \/ Resolved(field, value) = <<>>

\* the field has a value with a range on day d1, its changes after d1 and
\* before d3 are cleared or unresolvable values, of which there is one, and
\* it has a value with a range on day d3
ClearedBetween(k, field, d1, d3) ==
    /\ d1 < d3
    /\ ChangesOn(k, field, d1) # {} /\ ~NoValueOn(k, field, d1)
    /\ ChangesOn(k, field, d3) # {} /\ ~NoValueOn(k, field, d3)
    /\ \E d2 \in CreepDays : d1 < d2 /\ d2 < d3 /\ ChangesOn(k, field, d2) # {}
    /\ \A d2 \in CreepDays :
          (d1 < d2 /\ d2 < d3 /\ ChangesOn(k, field, d2) # {}) => NoValueOn(k, field, d2)

\* the events of the field on day d3 are those of the value of d3 against
\* the value of d1
ClassifiedAgainst(k, field, d1, d3) ==
    /\ EventTypes(k, field, d3) # <<"TIME_SET">>
    /\ ~(field = "Fix Version/s" /\ VersionHoldsTargetEnd(k, d3)) =>
          EventTypes(k, field, d3) =
              AsEvents(Classified(NewEnd(k, field, d1), NewEnd(k, field, d3)))

\* C38: when a tracked field of an analysed issue is cleared, or its new
\* value cannot be resolved, the known state is left as it was: the analysis
\* returns, and the next value with a range on a later day is classified
\* against the value known before the clearing (TIME_CREEP, TIME_PULL_IN or
\* no event), not as TIME_SET.
C38_ClearedValueKeepsKnownState ==
    apc = "creep_done" =>
        \A k \in Keys : \A field \in ALLOWED_FIELDS : \A d1, d3 \in CreepDays :
            (InCreepScope(k) /\ ClearedBetween(k, field, d1, d3)) =>
                /\ creep.returned
                /\ ClassifiedAgainst(k, field, d1, d3)

\* what the code does: the same, in the analyses that return
C38_KeptWhenAnalysisReturns ==
    CreepDone =>
        \A k \in Keys : \A field \in ALLOWED_FIELDS : \A d1, d3 \in CreepDays :
            (InCreepScope(k) /\ ClearedBetween(k, field, d1, d3)) =>
                ClassifiedAgainst(k, field, d1, d3)

\* Q3_25 on day 1, a label without a pattern on day 2, PI28 on day 3, which
\* is a TIME_PULL_IN against Q3_25
C38_WitnessReturned ==
    /\ CreepDone
    /\ ClearedBetween(epic_id, "Fix Version/s", 1, 3)
    /\ EventTypes(epic_id, "Fix Version/s", 3) = <<"TIME_PULL_IN">>

(***************************************************************************)
(* C39: the coding window is an interval.                                  *)
(***************************************************************************)
\* C39: whenever analyze reports both coding_start_time and coding_end_time,
\* coding_end_time is not earlier than coding_start_time, and neither the
\* month count nor the day count of coding_duration is negative.
C39_CodingEndNotBeforeStart ==
    (/\ Analyzed
     /\ analysis.coding_start_time # <<>>
     /\ analysis.coding_end_time # <<>>) =>
        /\ analysis.coding_end_time[1] >= analysis.coding_start_time[1]
        /\ analysis.coding_duration.months >= 0
        /\ analysis.coding_duration.days >= 0

(***************************************************************************)
(* Part 11: BacklogAnalyzer on stories whose activities lie days apart     *)
(*          (src/src/features/backlog_analyzer.py)                         *)
(***************************************************************************)
\* the instants of the activities: one on each of the days 1, 5 and 10
SeriesTimes == {10, 50, 100}

\* date.today(): the day of the latest instant, or a later one
SeriesTodays == {10, 12}

SeriesActivities ==
    [feld_name : {"Status"}, neuer_wert : BacklogStatusValues,
     zeitstempel_iso : SeriesTimes]
    \cup [feld_name : {"Description"}, neuer_wert : {"[...]"}, zeitstempel_iso : SeriesTimes]

\* the activity lists of at most n activities, in chronological order; the
\* Description entry, if any, is the one of the creation of the issue
RECURSIVE SeriesLists(_)
SeriesLists(n) ==
    IF n <= 0 THEN {<<>>}
    ELSE LET shorter == SeriesLists(n - 1)
         IN  shorter \cup
             {Append(p[1], p[2]) :
                p \in {q \in shorter \X SeriesActivities :
                          /\ Len(q[1]) = n - 1
                          /\ Follows(q[1], q[2])
                          /\ q[2].feld_name = "Description" => q[1] = <<>>}}

\* BacklogAnalyzer.analyze, called on the day of the latest instant or later
BacklogAnalyzeLater ==
    /\ apc = "provided"
    /\ \E today \in SeriesTodays :
          backlog' = BacklogResult(today)
    /\ apc' = "backlog_done"
    /\ UNCHANGED <<issue_tree, json_dir, all_activities, analysis, issue_edges, creep,
                   pipelineVars>>
    /\ UNCHANGED <<treeVars, issue_log, scraperVars>>

\* the provider is built: the root K-1 is a Business Epic without activities,
\* K-2 and K-3 below it are Stories with MaxBacklogEvents activities in all
SeriesInit ==
    /\ TreeIdle
    /\ ScraperIdle
    /\ issue_log = <<>>
    /\ \E a2 \in SeriesLists(MaxBacklogEvents) :
         \E a3 \in SeriesLists(MaxBacklogEvents - Len(a2)) :
           json_dir = [k \in Keys |->
                          IF k = "K-1" THEN IssueFile("Business Epic", <<>>)
                          ELSE IF k = "K-2" THEN IssueFile("Story", a2)
                          ELSE IssueFile("Story", a3)]
    /\ issue_tree = <<"K-1", "K-2", "K-3">>
    /\ issue_edges = {<<"K-1", "K-2">>, <<"K-1", "K-3">>}
    /\ all_activities = StableSort(_gather_all_activities(issue_tree))
    /\ apc = "provided"
    /\ analysis = [returned |-> FALSE]
    /\ creep = [returned |-> FALSE]
    /\ backlog = [returned |-> FALSE]
    /\ PipelineIdle

SeriesNext == BacklogAnalyzeLater

SeriesSpec == SeriesInit /\ [][SeriesNext]_vars

(***************************************************************************)
(* C40: the two running sums of the backlog series, stated on the files.   *)
(***************************************************************************)
\* the stories whose first activity is on or before day d
RefinedBy(d) == {k \in ActiveStories : DayOf(StartOf(k)) <= d}

\* the stories whose first change to RESOLVED or CLOSED is on or before day d
FinishedBy(d) == {k \in ActiveStories : ClosingsOf(k) # {} /\ DayOf(FinishOf(k)) <= d}

\* S1 has its first activity on day 1 and is resolved on day 10, S2 has its
\* first activity on day 5 and is open
SeriesScenario ==
    \E S1, S2 \in ActiveStories :
        /\ ActiveStories = {S1, S2}
        /\ S1 # S2
        /\ DayOf(StartOf(S1)) = 1
        /\ ClosingsOf(S1) # {} /\ DayOf(FinishOf(S1)) = 10
        /\ DayOf(StartOf(S2)) = 5
        /\ ClosingsOf(S2) = {}

\* C40: on every day d of the series refined_backlog is the number of
\* stories with an activity whose first activity is on or before d, and
\* finished_backlog the number of those whose first Status change to RESOLVED
\* or CLOSED is on or before d; for S1 and S2 of the scenario the series runs
\* from day 1 to today, refined_backlog is 2 from day 5, finished_backlog is
\* 1 from day 10 and active_backlog is 1 from day 10 on.
C40_RunningSumsCountStories ==
    BacklogSeries =>
        /\ \A d \in DOMAIN backlog.results_df :
              /\ backlog.results_df[d].refined_backlog = Cardinality(RefinedBy(d))
              /\ backlog.results_df[d].finished_backlog = Cardinality(FinishedBy(d))
        /\ SeriesScenario =>
              /\ SeriesRuns(1, backlog.today)
              /\ \A d \in DOMAIN backlog.results_df :
                    /\ backlog.results_df[d].refined_backlog = (IF d >= 5 THEN 2 ELSE 1)
                    /\ backlog.results_df[d].finished_backlog = (IF d >= 10 THEN 1 ELSE 0)
                    /\ d >= 10 => backlog.results_df[d].active_backlog = 1

\* the series of the scenario, analysed two days after S1 was resolved
C40_Witness ==
    /\ BacklogSeries
    /\ SeriesScenario
    /\ backlog.today = 12
    /\ backlog.results_df[5].refined_backlog = 2
    /\ backlog.results_df[10].finished_backlog = 1
    /\ backlog.results_df[12].active_backlog = 1
====
